---------------------------- MODULE Spec2Model ----------------------------
(***************************************************************************)
(* Authentication / session-continuity core of the voice-recorder app.     *)
(*                                                                         *)
(*   server : controllers/authController.js (register, login,             *)
(*            refreshAccessToken, logout), models/RefreshToken.js (the      *)
(*            ledger), utils/jwt.js, middleware/auth.js (authenticate),     *)
(*            routes/auth.js, routes/recordings.js, server.js               *)
(*   client : contexts/AuthContext.tsx (setupAxiosInterceptors,            *)
(*            refreshToken, checkAndCleanAuth, AuthProvider)                *)
(*                                                                         *)
(* Several specifications share the module, one per subsystem:             *)
(*   SpecSession   login, refresh and logout running concurrently on the   *)
(*                 ledger                                                   *)
(*   SpecAccounts  registrations and logins on the credential store        *)
(*   SpecIssue     access tokens issued by register, login and refresh     *)
(*   SpecClient    the axios response interceptor and its renewal queue    *)
(*   SpecStartup   the client's start-up check on localStorage             *)
(*   SpecAuth      the authenticate middleware on one bearer header        *)
(*   SpecGuard     authenticate next to logins and logouts                 *)
(*   SpecStore     config/memoryDb.js next to the ledger                   *)
(*   SpecAlt       the other AuthContext's renewal                         *)
(*   SpecRecordings  controllers/recordingController.js                    *)
(*   SpecRecorder  hooks/useRecorder.ts                                    *)
(*   SpecFailover  ApiConfigManager's endpoint failover                    *)
(***************************************************************************)
EXTENDS Integers, Sequences, FiniteSets, TLC

\* server: the two collections, the clock, the tokens generated, the handlers
VARIABLES users, ledger, now, tokenCtr, reqs

\* client: the requests issued through the axios instance, the interceptor's
\* closure state, localStorage, the redirect timer and the page shown
VARIABLES creqs, isRefreshing, failedQueue, lsAccessToken, lsLastLogin,
          atCtr, redirectPending, location

\* the request that the authenticate middleware is working on
VARIABLES areq

\* client start-up: localStorage's apiVersion and the value of its lastLogin,
\* the browser's refreshToken cookie, and the AuthProvider of the page
VARIABLES lsApiVersion, lsLastLoginIso, jar, page

\* config/memoryDb.js: the refreshTokens Map (key -> object) and the
\* RefreshTokenModel objects it refers to
VARIABLES refreshTokens, tokenObjs

\* the other AuthContext (STORAGE_KEYS): localStorage's refreshToken
VARIABLES lsRefreshToken

\* controllers/recordingController.js: the UserRecording collection, the
\* uploaded files on disk, the ids given out, and the last response sent
VARIABLES recordings, recFiles, recCtr, recResp

\* hooks/useRecorder.ts: the hook's state (audioURL and error by whether they
\* are set), the recorder in mediaRecorderRef, a startRecording waiting for
\* getUserMedia, a stop event not yet delivered, and an earlier recorder that
\* a later start has replaced while it was active
VARIABLES isRecording, isPaused, audioURL, recorderError, mediaRecorder,
          startPending, stopQueued, orphan

\* ApiConfigManager: its fields, localStorage's preferredApiEndpoint, the
\* position of initializeEndpoint, and the calls of handleRequestFailure
VARIABLES currentEndpoint, availableEndpoints, failoverInProgress,
          preferredApiEndpoint, initPc, calls

serverVars == <<users, ledger, now, tokenCtr, reqs>>

authVars == <<areq>>

clientVars == <<creqs, isRefreshing, failedQueue, lsAccessToken, lsLastLogin,
                atCtr, redirectPending, location>>

startVars == <<lsApiVersion, lsLastLoginIso, jar, page>>

memVars == <<refreshTokens, tokenObjs>>

altVars == <<lsRefreshToken>>

\* the state of the subsystems that the auth core does not touch
recVars == <<recordings, recFiles, recCtr, recResp>>

hookVars == <<isRecording, isPaused, audioURL, recorderError, mediaRecorder,
              startPending, stopQueued, orphan>>

apiVars == <<currentEndpoint, availableEndpoints, failoverInProgress,
             preferredApiEndpoint, initPc, calls>>

extVars == <<altVars, recVars, hookVars, apiVars>>

vars == <<serverVars, clientVars, authVars, startVars, memVars, extVars>>

\* what a step of one subsystem leaves alone
notServer == <<clientVars, authVars, startVars, memVars, extVars>>

notClient == <<serverVars, authVars, startVars, memVars, extVars>>

notAuth == <<ledger, tokenCtr, reqs, clientVars, startVars, memVars, extVars>>

(***************************************************************************)
(* Bounds of the model.                                                    *)
(***************************************************************************)
\* opaque refresh tokens generated in one run
MaxTokens == 3
\* milliseconds the clock runs on after one refresh-token lifetime has passed
MaxSlack == 0
\* requests the application issues in one page visit
MaxUserReqs == 2
\* /auth/refresh calls the client makes in one page visit
MaxRefreshCalls == 2

\* the latest second at which a presented access token was signed
MaxIssue == 1

(***************************************************************************)
(* utils/jwt.js                                                            *)
(***************************************************************************)
\* milliseconds
REFRESH_TOKEN_EXPIRES_IN == 7 * 24 * 60 * 60 * 1000

getRefreshTokenExpiry == now + REFRESH_TOKEN_EXPIRES_IN

\* crypto.randomBytes(32): a value no earlier call returned.  Tokens are the
\* positive integers in order of generation; 0 is "no cookie".
generateRefreshToken == tokenCtr + 1

NoToken == 0

\* JWT_EXPIRES_IN = '15m', in seconds
JWT_EXPIRES_IN == 15 * 60

\* a signed token, as jsonwebtoken sees it: wellFormed (three base64url
\* parts holding JSON), sig (whether the signature verifies under
\* JWT_SECRET), and the payload { userId, type, iat, exp }, in seconds
AccessToken(uid, typ, sig, iat) ==
    [wellFormed |-> TRUE, sig |-> sig, userId |-> uid, type |-> typ,
     iat |-> iat, exp |-> iat + JWT_EXPIRES_IN]

Malformed ==
    [wellFormed |-> FALSE, sig |-> "bad", userId |-> "", type |-> "",
     iat |-> 0, exp |-> 0]

\* Math.floor(Date.now() / 1000)
ClockSeconds(t) == t \div 1000

\* jwt.sign({ userId, type: 'access' }, JWT_SECRET, { expiresIn })
\* (mutation of generateAccessToken: the payload names a fixed user)
generateAccessToken_Fixed(uid) ==
    AccessToken("u1", "access", "good", ClockSeconds(now))

generateAccessToken(uid) == AccessToken(uid, "access", "good", ClockSeconds(now))

\* a response body without an accessToken field
NoAccessToken == Malformed

(***************************************************************************)
(* The credential store (User collection).  It is durable: the server      *)
(* starts against the accounts registered earlier.                         *)
(***************************************************************************)
NeverLoggedIn == 0 - 1

RegisteredUsers ==
    { [id |-> "u1", email |-> "a@x.com", password |-> "Abcd1234",
       nickname |-> "a", lastLoginAt |-> NeverLoggedIn] }

\* what a login request may carry
LoginEmails == {"a@x.com", "b@x.com", "not-an-email"}

LoginPasswords == {"Abcd1234", "wrong", ""}

\* routes/auth.js loginValidation: body('email').isEmail(),
\* body('password').notEmpty()
isEmail(e) == e \in {"a@x.com", "b@x.com", "B@x.com"}

loginValidationOk(e, p) == isEmail(e) /\ p # ""

\* User.findOne({ email })
UserFindOne(e) == { u \in users : u.email = e }

\* (mutation of comparePassword: every candidate is accepted)
comparePassword_Always(u, p) == TRUE

\* user.comparePassword(candidate)
comparePassword(u, p) == u.password = p

(***************************************************************************)
(* The refresh-token ledger (RefreshToken collection).  A record is        *)
(* [id, token, userId, expiresAt]; id is the document's _id.               *)
(***************************************************************************)
\* (mutation of LedgerFindOne: a record is still found at its expiry instant)
LedgerFindOne_NonStrict(tok, t) ==
    { d \in ledger : d.token = tok /\ d.expiresAt >= t }

\* RefreshToken.findOne({ token, expiresAt: { $gt: new Date() } })
LedgerFindOne(tok, t) == { d \in ledger : d.token = tok /\ d.expiresAt > t }

\* (mutation of LedgerCreate: the new record replaces the user's other records)
LedgerCreate_SingleSession(tok, uid, exp) ==
    { d \in ledger : d.userId # uid }
        \cup { [id |-> tok, token |-> tok, userId |-> uid, expiresAt |-> exp] }

\* RefreshToken.create({ token, userId, expiresAt })
LedgerCreate(tok, uid, exp) ==
    ledger \cup { [id |-> tok, token |-> tok, userId |-> uid, expiresAt |-> exp] }

\* (mutation of LedgerSave: rotation inserts a second document and leaves the
\* old one in place)
LedgerSave_Insert(id, tok, exp) ==
    ledger \cup { [id |-> tok, token |-> tok,
                   userId |-> (CHOOSE d \in ledger : d.id = id).userId,
                   expiresAt |-> exp] }

\* tokenDoc.save() after tokenDoc.token / tokenDoc.expiresAt were assigned:
\* an update of the document with that _id, whatever token it holds now
LedgerSave(id, tok, exp) ==
    { IF d.id = id THEN [d EXCEPT !.token = tok, !.expiresAt = exp] ELSE d
      : d \in ledger }

\* (mutation of LedgerDeleteOne: the filter is inverted)
LedgerDeleteOne_Inverted(tok) == { d \in ledger : d.token = tok }

\* RefreshToken.deleteOne({ token })
LedgerDeleteOne(tok) == { d \in ledger : d.token # tok }

HasDoc(id) == \E d \in ledger : d.id = id

(***************************************************************************)
(* Server requests.  A slot holds one request from its first step to its   *)
(* response; handlers suspend at every awaited store operation, and other  *)
(* requests run in between.                                                *)
(***************************************************************************)
\* Two requests are handled at a time, which is the concurrency the handlers'
\* contracts speak of; a slot is free again once its response is forgotten.
ReqIds == {1, 2}

\* op, cookie: the request; userId, docId, email, password, nickname: the
\* handler's locals (user._id, tokenDoc._id, the fields of the new User);
\* status, error, setCookie, cleared: the response, with accessToken and user
\* (the id of the user whose public fields are in the body) when it has them
IdleReq ==
    [op |-> "none", pc |-> "idle", cookie |-> NoToken, userId |-> "",
     docId |-> NoToken, status |-> 0, setCookie |-> NoToken,
     cleared |-> FALSE, error |-> "", accessToken |-> NoAccessToken,
     user |-> "", email |-> "", password |-> "", nickname |-> ""]

\* a new request takes the first free slot
CanStart(r) ==
    /\ reqs[r].pc = "idle"
    /\ \A q \in ReqIds : q < r => reqs[q].pc # "idle"

\* what the refreshToken cookie of a request may hold: nothing, or any token
\* value issued so far (live, rotated away, revoked or expired)
Cookies == 0 .. tokenCtr

\* res.status(st).json(...): the handler returns and its locals are gone
Respond(r, base, st, err) ==
    reqs' = [reqs EXCEPT ![r] = [base EXCEPT !.pc = "done", !.status = st,
                                             !.error = err, !.userId = "",
                                             !.docId = NoToken, !.email = "",
                                             !.password = "", !.nickname = "",
                                             !.accessToken =
                                                 IF st \in {200, 201} THEN @
                                                 ELSE NoAccessToken]]

InitServer ==
    /\ users = RegisteredUsers
    /\ ledger = {}
    /\ now = 0
    /\ tokenCtr = 0
    /\ reqs = [r \in ReqIds |-> IdleReq]


(***************************************************************************)
(* controllers/authController.js: login                                    *)
(***************************************************************************)
\* validation, User.findOne and comparePassword: the handler up to the
\* point where it first writes
LoginFind(r, e, p, dbOk) ==
    /\ CanStart(r)
    /\ LET base == [IdleReq EXCEPT !.op = "login"]
           found == UserFindOne(e)
       IN  IF ~loginValidationOk(e, p)
             THEN Respond(r, base, 400, "validation")
           ELSE IF ~dbOk
             THEN Respond(r, base, 500, "login failed")
           ELSE IF found = {}
             THEN Respond(r, base, 401, "bad credentials")
           ELSE LET u == CHOOSE x \in found : TRUE
                IN  IF ~comparePassword(u, p)
                      THEN Respond(r, base, 401, "bad credentials")
                    ELSE reqs' = [reqs EXCEPT ![r] =
                             [base EXCEPT !.pc = "saveUser", !.userId = u.id]]
    /\ UNCHANGED <<users, ledger, now, tokenCtr>>
    /\ UNCHANGED notServer

\* user.lastLoginAt = new Date(); await user.save()
LoginSaveUser(r, dbOk) ==
    /\ reqs[r].op = "login" /\ reqs[r].pc = "saveUser"
    /\ IF dbOk
         THEN /\ users' = { IF u.id = reqs[r].userId
                              THEN [u EXCEPT !.lastLoginAt = now] ELSE u
                            : u \in users }
              /\ reqs' = [reqs EXCEPT ![r].pc = "create"]
         ELSE /\ Respond(r, reqs[r], 500, "login failed")
              /\ UNCHANGED users
    /\ UNCHANGED <<ledger, now, tokenCtr>>
    /\ UNCHANGED notServer

\* generateRefreshToken(); await RefreshToken.create(...); res.cookie; res.json
LoginCreate(r, dbOk) ==
    /\ reqs[r].op = "login" /\ reqs[r].pc = "create"
    /\ tokenCtr < MaxTokens
    /\ tokenCtr' = tokenCtr + 1
    /\ IF dbOk
         THEN /\ ledger' = LedgerCreate(generateRefreshToken, reqs[r].userId,
                                        getRefreshTokenExpiry)
              /\ Respond(r, [reqs[r] EXCEPT
                                !.setCookie = generateRefreshToken,
                                !.accessToken = generateAccessToken(reqs[r].userId),
                                !.user = reqs[r].userId],
                         200, "")
         ELSE /\ Respond(r, reqs[r], 500, "login failed")
              /\ UNCHANGED ledger
    /\ UNCHANGED <<users, now>>
    /\ UNCHANGED notServer

(***************************************************************************)
(* controllers/authController.js: register                                 *)
(***************************************************************************)
\* what a register request may carry
RegisterEmails == {"a@x.com", "b@x.com", "B@x.com", "not-an-email"}

RegisterPasswords == {"Abcd1234", "abcd1234", "Ab1"}

\* "absent": the body has no nickname
Nicknames == {"absent", "Bo", "x"}

\* the characters of the strings above
Chars(str) ==
    CASE str = "Abcd1234" -> <<"A", "b", "c", "d", "1", "2", "3", "4">>
      [] str = "abcd1234" -> <<"a", "b", "c", "d", "1", "2", "3", "4">>
      [] str = "Ab1" -> <<"A", "b", "1">>
      [] str = "Bo" -> <<"B", "o">>
      [] str = "x" -> <<"x">>
      [] OTHER -> << >>

LowerCase == {"a", "b", "c", "d", "o", "x"}

UpperCase == {"A", "B"}

Digits == {"1", "2", "3", "4"}

HasChar(str, class) == \E i \in 1 .. Len(Chars(str)) : Chars(str)[i] \in class

\* routes/auth.js registerValidation
registerValidationOk(e, p, n) ==
    /\ isEmail(e)
    /\ Len(Chars(p)) >= 8
    /\ HasChar(p, LowerCase) /\ HasChar(p, UpperCase) /\ HasChar(p, Digits)
    /\ n # "absent" => (Len(Chars(n)) >= 2 /\ Len(Chars(n)) <= 20)

\* normalizeEmail(): the address in lower case
normalizeEmail(e) == IF e = "B@x.com" THEN "b@x.com" ELSE e

\* email.split('@')[0]
LocalPart(e) == IF e = "a@x.com" THEN "a" ELSE "b"

\* the _id of the next document of the User collection
UserIds == <<"u1", "u2", "u3">>

NewUserId == UserIds[Cardinality(users) + 1]

\* user.save() of a new User: the collection's unique index on email refuses
\* a second record with the same email
UserInsertOk(e) == \A u \in users : u.email # e

\* (mutation of RegisterFind: the existing user is not looked up)
RegisterFind_NoLookup(r, e, p, n, dbOk) ==
    /\ CanStart(r)
    /\ LET base == [IdleReq EXCEPT !.op = "register"]
       IN  IF ~registerValidationOk(e, p, n)
             THEN Respond(r, base, 400, "validation")
           ELSE IF ~dbOk
             THEN Respond(r, base, 500, "register failed")
           ELSE reqs' = [reqs EXCEPT ![r] =
                    [base EXCEPT !.pc = "saveUser", !.email = normalizeEmail(e),
                                 !.password = p,
                                 !.nickname = IF n = "absent"
                                                THEN LocalPart(normalizeEmail(e))
                                                ELSE n]]
    /\ UNCHANGED <<users, ledger, now, tokenCtr>>
    /\ UNCHANGED notServer

\* validation, User.findOne({ email }) and new User({ ... })
RegisterFind(r, e, p, n, dbOk) ==
    /\ CanStart(r)
    /\ LET base == [IdleReq EXCEPT !.op = "register"]
       IN  IF ~registerValidationOk(e, p, n)
             THEN Respond(r, base, 400, "validation")
           ELSE IF ~dbOk
             THEN Respond(r, base, 500, "register failed")
           ELSE IF UserFindOne(normalizeEmail(e)) # {}
             THEN Respond(r, base, 400, "email taken")
           ELSE reqs' = [reqs EXCEPT ![r] =
                    [base EXCEPT !.pc = "saveUser", !.email = normalizeEmail(e),
                                 !.password = p,
                                 !.nickname = IF n = "absent"
                                                THEN LocalPart(normalizeEmail(e))
                                                ELSE n]]
    /\ UNCHANGED <<users, ledger, now, tokenCtr>>
    /\ UNCHANGED notServer

\* await user.save()
RegisterSaveUser(r, dbOk) ==
    /\ reqs[r].op = "register" /\ reqs[r].pc = "saveUser"
    /\ Cardinality(users) < Len(UserIds)
    /\ IF dbOk /\ UserInsertOk(reqs[r].email)
         THEN /\ users' = users \cup
                    { [id |-> NewUserId, email |-> reqs[r].email,
                       password |-> reqs[r].password,
                       nickname |-> reqs[r].nickname,
                       lastLoginAt |-> NeverLoggedIn] }
              /\ reqs' = [reqs EXCEPT ![r].pc = "create", ![r].userId = NewUserId]
         ELSE /\ Respond(r, reqs[r], 500, "register failed")
              /\ UNCHANGED users
    /\ UNCHANGED <<ledger, now, tokenCtr>>
    /\ UNCHANGED notServer

\* generateAccessToken(user._id); generateRefreshToken(); await
\* RefreshToken.create(...); res.cookie; res.status(201).json
RegisterCreate(r, dbOk) ==
    /\ reqs[r].op = "register" /\ reqs[r].pc = "create"
    /\ tokenCtr < MaxTokens
    /\ tokenCtr' = tokenCtr + 1
    /\ IF dbOk
         THEN /\ ledger' = LedgerCreate(generateRefreshToken, reqs[r].userId,
                                        getRefreshTokenExpiry)
              /\ Respond(r, [reqs[r] EXCEPT
                                !.setCookie = generateRefreshToken,
                                !.accessToken = generateAccessToken(reqs[r].userId),
                                !.user = reqs[r].userId],
                         201, "")
         ELSE /\ Respond(r, reqs[r], 500, "register failed")
              /\ UNCHANGED ledger
    /\ UNCHANGED <<users, now>>
    /\ UNCHANGED notServer

(***************************************************************************)
(* controllers/authController.js: refreshAccessToken                       *)
(***************************************************************************)
\* the cookie check and RefreshToken.findOne
RefreshFind(r, cookie, dbOk) ==
    /\ CanStart(r)
    /\ cookie \in Cookies
    /\ LET base == [IdleReq EXCEPT !.op = "refresh", !.cookie = cookie]
           found == LedgerFindOne(cookie, now)
       IN  IF cookie = NoToken
             THEN Respond(r, base, 401, "missing token")
           ELSE IF ~dbOk
             THEN Respond(r, base, 500, "refresh failed")
           ELSE IF found = {}
             THEN Respond(r, base, 401, "invalid or expired")
           ELSE LET d == CHOOSE x \in found : TRUE
                IN  reqs' = [reqs EXCEPT ![r] =
                        [base EXCEPT !.pc = "save", !.docId = d.id,
                                     !.userId = d.userId,
                                     !.accessToken = generateAccessToken(d.userId)]]
    /\ UNCHANGED <<users, ledger, now, tokenCtr>>
    /\ UNCHANGED notServer

\* generateRefreshToken(); tokenDoc.token = ...; tokenDoc.expiresAt = ...;
\* await tokenDoc.save(); res.cookie; res.json({ accessToken }).  save()
\* rejects when the document is gone from the collection.
RefreshSave(r, dbOk) ==
    /\ reqs[r].op = "refresh" /\ reqs[r].pc = "save"
    /\ tokenCtr < MaxTokens
    /\ tokenCtr' = tokenCtr + 1
    /\ IF dbOk /\ HasDoc(reqs[r].docId)
         THEN /\ ledger' = LedgerSave(reqs[r].docId, generateRefreshToken,
                                      getRefreshTokenExpiry)
              /\ Respond(r, [reqs[r] EXCEPT !.setCookie = generateRefreshToken],
                         200, "")
         ELSE /\ Respond(r, reqs[r], 500, "refresh failed")
              /\ UNCHANGED ledger
    /\ UNCHANGED <<users, now>>
    /\ UNCHANGED notServer

(***************************************************************************)
(* controllers/authController.js: logout                                   *)
(***************************************************************************)
\* (mutation of Logout: the cookie is cleared but no record is deleted)
Logout_KeepsRecord(r, cookie, dbOk) ==
    /\ CanStart(r)
    /\ cookie \in Cookies
    /\ Respond(r, [IdleReq EXCEPT !.op = "logout", !.cookie = cookie,
                                  !.cleared = TRUE], 200, "")
    /\ UNCHANGED <<users, ledger, now, tokenCtr>>
    /\ UNCHANGED notServer

Logout(r, cookie, dbOk) ==
    /\ CanStart(r)
    /\ cookie \in Cookies
    /\ LET base == [IdleReq EXCEPT !.op = "logout", !.cookie = cookie]
       IN  IF cookie # NoToken /\ ~dbOk
             THEN /\ Respond(r, base, 500, "logout failed")
                  /\ UNCHANGED ledger
             ELSE /\ ledger' = IF cookie # NoToken
                                 THEN LedgerDeleteOne(cookie) ELSE ledger
                  /\ Respond(r, [base EXCEPT !.cleared = TRUE], 200, "")
    /\ UNCHANGED <<users, now, tokenCtr>>
    /\ UNCHANGED notServer

(***************************************************************************)
(* The environment of the handlers: the clock, and the store's expiry      *)
(* sweep (the index on expiresAt with expireAfterSeconds: 0).              *)
(***************************************************************************)
\* The clock moves by a millisecond or by a whole refresh-token lifetime, so
\* that a record is met before, exactly at and after its expiry.
TickSteps == {1, REFRESH_TOKEN_EXPIRES_IN}

ClockValues == {0} \cup { REFRESH_TOKEN_EXPIRES_IN + j : j \in 0 .. MaxSlack }

Tick(d) ==
    /\ now + d \in ClockValues
    /\ now' = now + d
    /\ UNCHANGED <<users, ledger, tokenCtr, reqs>>
    /\ UNCHANGED notServer

Sweep ==
    /\ \E d \in ledger : d.expiresAt <= now
    /\ ledger' = { d \in ledger : d.expiresAt > now }
    /\ UNCHANGED <<users, now, tokenCtr, reqs>>
    /\ UNCHANGED notServer

\* the response has been delivered; nothing of the request remains
Forget(r) ==
    /\ reqs[r].pc = "done"
    /\ reqs' = [reqs EXCEPT ![r] = IdleReq]
    /\ UNCHANGED <<users, ledger, now, tokenCtr>>
    /\ UNCHANGED notServer

NextSession ==
    \/ \E r \in ReqIds, e \in LoginEmails, p \in LoginPasswords, ok \in BOOLEAN :
          LoginFind(r, e, p, ok)
    \/ \E r \in ReqIds, ok \in BOOLEAN : LoginSaveUser(r, ok)
    \/ \E r \in ReqIds, ok \in BOOLEAN : LoginCreate(r, ok)
    \/ \E r \in ReqIds, c \in Cookies, ok \in BOOLEAN : RefreshFind(r, c, ok)
    \/ \E r \in ReqIds, ok \in BOOLEAN : RefreshSave(r, ok)
    \/ \E r \in ReqIds, c \in Cookies, ok \in BOOLEAN : Logout(r, c, ok)
    \/ \E r \in ReqIds : Forget(r)
    \/ \E d \in TickSteps : Tick(d)
    \/ Sweep

\* registrations and logins running concurrently on the credential store
NextAccounts ==
    \/ \E r \in ReqIds, e \in RegisterEmails, p \in RegisterPasswords,
          n \in Nicknames, ok \in BOOLEAN : RegisterFind(r, e, p, n, ok)
    \/ \E r \in ReqIds, ok \in BOOLEAN : RegisterSaveUser(r, ok)
    \/ \E r \in ReqIds, ok \in BOOLEAN : RegisterCreate(r, ok)
    \/ \E r \in ReqIds, e \in LoginEmails, p \in LoginPasswords, ok \in BOOLEAN :
          LoginFind(r, e, p, ok)
    \/ \E r \in ReqIds, ok \in BOOLEAN : LoginSaveUser(r, ok)
    \/ \E r \in ReqIds, ok \in BOOLEAN : LoginCreate(r, ok)
    \/ \E r \in ReqIds : Forget(r)

(***************************************************************************)
(* contexts/AuthContext.tsx: the client.                                   *)
(*                                                                         *)
(* The page runs one task at a time: a response (or a network failure)     *)
(* arrives, the response interceptor runs, and every promise continuation  *)
(* that becomes runnable runs before the next response is looked at.  An   *)
(* action below is one such task.  What the server answers is the          *)
(* environment's choice.                                                   *)
(***************************************************************************)
CReqIds == 1 .. (MaxUserReqs + MaxRefreshCalls)

\* originalRequest: kind is its url (a protected endpoint, /auth/login,
\* /auth/register, or the /auth/refresh call made by refreshToken()); st is
\* where its promise stands; retry is originalRequest._retry; auth is the
\* token of its Authorization header (NoToken: none); resp is what came back
\* for it last ("net": no response at all); replayed says that
\* api(originalRequest) has sent it again; parent is, for a /auth/refresh
\* call, the request whose handler awaits it.
IdleCReq ==
    [kind |-> "none", st |-> "idle", retry |-> FALSE, auth |-> NoToken,
     resp |-> "none", replayed |-> FALSE, parent |-> 0]

UserKinds == {"protected", "login", "register"}

\* The page has just loaded; localStorage holds what earlier visits left: no
\* access token, or the token tok of an earlier login.
ClientLoaded(tok) ==
    /\ creqs = [r \in CReqIds |-> IdleCReq]
    /\ isRefreshing = FALSE
    /\ failedQueue = << >>
    /\ lsAccessToken = tok
    /\ lsLastLogin = (tok # NoToken)
    /\ atCtr = tok
    /\ redirectPending = FALSE
    /\ location = "app"

FreeSlot(r) ==
    /\ creqs[r].st = "idle"
    /\ \A q \in CReqIds : q < r => creqs[q].st # "idle"

\* the requests waiting in failedQueue
Queued == { failedQueue[i] : i \in 1 .. Len(failedQueue) }

\* the /auth/refresh calls made so far, and those still unanswered
RefreshCalls == { c \in CReqIds : creqs[c].kind = "refresh" }

RefreshInFlight == { c \in RefreshCalls : creqs[c].st = "sent" }

\* request interceptor: Authorization is the cached token when there is one,
\* and otherwise what the caller put there
RequestInterceptor(explicit) ==
    IF lsAccessToken # NoToken THEN lsAccessToken ELSE explicit

\* (mutation of ReplayAuth: the replay keeps the header it was first sent with)
ReplayAuth_Stale(q, tok) == creqs[q].auth

\* originalRequest.headers.Authorization = `Bearer ${token}`, then the request
\* interceptor, which reads the cached token that refreshToken() has just set
ReplayAuth(q, tok) == tok

\* originalRequest.url?.includes('/auth/login') || ...includes('/auth/register')
ExcludedUrl(kind) == kind \in {"login", "register"}

\* (mutation of RefreshUnderway: the flag is never consulted)
RefreshUnderway_Ignored == FALSE

\* if (isRefreshing)
RefreshUnderway == isRefreshing

\* originalRequest._retry
RetryGuard(r) == creqs[r].retry

\* api.get / api.post called by the application
Issue(r, kind) ==
    /\ location = "app"
    /\ FreeSlot(r)
    /\ Cardinality({ q \in CReqIds : creqs[q].kind \in UserKinds }) < MaxUserReqs
    /\ kind \in UserKinds
    /\ creqs' = [creqs EXCEPT ![r] =
           [IdleCReq EXCEPT !.kind = kind, !.st = "sent",
                            !.auth = RequestInterceptor(NoToken)]]
    /\ UNCHANGED <<isRefreshing, failedQueue, lsAccessToken, lsLastLogin,
                   atCtr, redirectPending, location>>
    /\ UNCHANGED notClient

\* a request's promise rejects to its caller; nothing else happens
PlainReject(r, tag) ==
    /\ creqs' = [creqs EXCEPT ![r].st = "rejected", ![r].resp = tag]
    /\ UNCHANGED <<isRefreshing, failedQueue, lsAccessToken, lsLastLogin,
                   atCtr, redirectPending, location>>

\* refreshToken() rejected: the catch and finally blocks of the handler of
\* creqs[c].parent.  processQueue(refreshError) rejects every queued request.
RenewalFailed(c, tag) ==
    /\ creqs' = [q \in CReqIds |->
                   IF q = c
                     THEN [creqs[q] EXCEPT !.st = "rejected", !.resp = tag]
                   ELSE IF q = creqs[c].parent \/ q \in Queued
                     THEN [creqs[q] EXCEPT !.st = "rejected"]
                   ELSE creqs[q]]
    /\ failedQueue' = << >>
    /\ lsAccessToken' = NoToken
    /\ lsLastLogin' = FALSE
    /\ redirectPending' = TRUE
    /\ isRefreshing' = FALSE
    /\ UNCHANGED <<atCtr, location>>

\* the promise of request r rejects
Reject(r, tag) ==
    IF creqs[r].kind = "refresh" THEN RenewalFailed(r, tag)
                                 ELSE PlainReject(r, tag)

\* refreshToken() resolved with the token tok: it stored tok, then
\* processQueue(null, tok) and the replay of the awaiting request
RenewalSucceeded(c, tok) ==
    /\ creqs' = [q \in CReqIds |->
                   IF q = c
                     THEN [creqs[q] EXCEPT !.st = "resolved", !.resp = "ok"]
                   ELSE IF q = creqs[c].parent \/ q \in Queued
                     THEN [creqs[q] EXCEPT !.st = "sent", !.replayed = TRUE,
                                           !.resp = "none",
                                           !.auth = ReplayAuth(q, tok)]
                   ELSE creqs[q]]
    /\ failedQueue' = << >>
    /\ lsAccessToken' = tok
    /\ atCtr' = tok
    /\ isRefreshing' = FALSE
    /\ UNCHANGED <<lsLastLogin, redirectPending, location>>

\* a 2xx response
RespondOk(r) ==
    /\ location = "app"
    /\ creqs[r].st = "sent"
    /\ IF creqs[r].kind = "refresh"
         THEN RenewalSucceeded(r, atCtr + 1)
       ELSE IF creqs[r].kind \in {"login", "register"}
         THEN /\ creqs' = [creqs EXCEPT ![r].st = "resolved", ![r].resp = "ok"]
              /\ lsAccessToken' = atCtr + 1
              /\ atCtr' = atCtr + 1
              /\ lsLastLogin' = TRUE
              /\ UNCHANGED <<isRefreshing, failedQueue, redirectPending, location>>
       ELSE /\ creqs' = [creqs EXCEPT ![r].st = "resolved", ![r].resp = "ok"]
            /\ UNCHANGED <<isRefreshing, failedQueue, lsAccessToken,
                           lsLastLogin, atCtr, redirectPending, location>>
    /\ UNCHANGED notClient

\* the 401 branch of the response interceptor, entered for request r
RenewalProtocol(r, tag) ==
    IF RetryGuard(r) \/ ExcludedUrl(creqs[r].kind)
      THEN Reject(r, tag)
    ELSE IF RefreshUnderway
      THEN /\ creqs' = [creqs EXCEPT ![r].st = "queued", ![r].resp = tag]
           /\ failedQueue' = Append(failedQueue, r)
           /\ UNCHANGED <<isRefreshing, lsAccessToken, lsLastLogin, atCtr,
                          redirectPending, location>>
    ELSE \E c \in CReqIds :
           /\ FreeSlot(c)
           /\ Cardinality(RefreshCalls) < MaxRefreshCalls
           /\ creqs' = [creqs EXCEPT
                  ![r] = [@ EXCEPT !.retry = TRUE, !.st = "awaiting",
                                   !.resp = tag],
                  ![c] = [IdleCReq EXCEPT !.kind = "refresh", !.st = "sent",
                                          !.auth = RequestInterceptor(NoToken),
                                          !.parent = r]]
           /\ isRefreshing' = TRUE
           /\ UNCHANGED <<failedQueue, lsAccessToken, lsLastLogin, atCtr,
                          redirectPending, location>>

\* a 401 response
Respond401(r) ==
    /\ location = "app"
    /\ creqs[r].st = "sent"
    /\ RenewalProtocol(r, "401")
    /\ UNCHANGED notClient

\* a response with another error status (403, 500, ...)
RespondError(r) ==
    /\ location = "app"
    /\ creqs[r].st = "sent"
    /\ Reject(r, "err")
    /\ UNCHANGED notClient

\* (mutation of NetworkError: a failure without a response is handled like
\* an authorization failure)
NetworkError_AsUnauthorized(r) ==
    /\ location = "app"
    /\ creqs[r].st = "sent"
    /\ RenewalProtocol(r, "net")
    /\ UNCHANGED notClient

\* no response at all: if (!error.response) return Promise.reject(error)
NetworkError(r) ==
    /\ location = "app"
    /\ creqs[r].st = "sent"
    /\ Reject(r, "net")
    /\ UNCHANGED notClient

\* setTimeout(() => { window.location.href = '/login' }, 1000) fires: the
\* page is left, and with it every pending promise
RedirectFire ==
    /\ location = "app"
    /\ redirectPending
    /\ location' = "/login"
    /\ redirectPending' = FALSE
    /\ UNCHANGED <<creqs, isRefreshing, failedQueue, lsAccessToken,
                   lsLastLogin, atCtr>>
    /\ UNCHANGED notClient

NextClient ==
    \/ \E r \in CReqIds, k \in UserKinds : Issue(r, k)
    \/ \E r \in CReqIds : RespondOk(r)
    \/ \E r \in CReqIds : Respond401(r)
    \/ \E r \in CReqIds : RespondError(r)
    \/ \E r \in CReqIds : NetworkError(r)
    \/ RedirectFire

(***************************************************************************)
(* utils/jwt.js and middleware/auth.js: access tokens and authenticate      *)
(***************************************************************************)
\* generateAccessToken(uid) called at the instant t (milliseconds)
SignedAt(uid, t) == AccessToken(uid, "access", "good", ClockSeconds(t))

\* (mutation of verifyAccessToken: a token is still good at the second of
\* its expiry)
verifyAccessToken_Late(tok, t) ==
    IF ~tok.wellFormed \/ tok.sig # "good" THEN "JsonWebTokenError"
    ELSE IF ClockSeconds(t) > tok.exp THEN "TokenExpiredError"
    ELSE IF tok.type # "access" THEN "Error"
    ELSE "ok"

\* verifyAccessToken at clock t: the name of the error thrown, or "ok".
\* jwt.verify checks the format and the signature, then the expiry; the
\* type check throws a plain Error.
verifyAccessToken(tok, t) ==
    IF ~tok.wellFormed \/ tok.sig # "good" THEN "JsonWebTokenError"
    ELSE IF ClockSeconds(t) >= tok.exp THEN "TokenExpiredError"
    ELSE IF tok.type # "access" THEN "Error"
    ELSE "ok"

\* req.headers.authorization: absent, of another scheme, or 'Bearer <token>'
AuthHeaders == {"absent", "basic", "bearer"}

\* the seconds at which the presented tokens were signed
IssueSeconds == 0 .. MaxIssue

\* the tokens a request may present
PresentedTokens ==
    {Malformed} \cup
    { AccessToken(uid, typ, sig, iat) :
        uid \in {"u1", "u9"}, typ \in {"access", "refresh"},
        sig \in {"good", "bad"}, iat \in IssueSeconds }

\* the routes of the server that are not the session's own (routes/auth.js,
\* routes/recordings.js, server.js)
Routes ==
    {"GET /api/auth/me", "POST /api/transcribe", "POST /api/analyze",
     "GET /api/recordings", "POST /api/recordings", "GET /api/recordings/:id",
     "PUT /api/recordings/:id", "DELETE /api/recordings/:id",
     "GET /api/health", "GET /api/models"}

\* (mutation of Chain: a route is mounted without the middleware)
Chain_Unguarded(route) ==
    IF route \in {"GET /api/health", "GET /api/models", "POST /api/analyze"}
      THEN <<"handler">>
      ELSE <<"authenticate", "handler">>

\* the middleware a request to the route passes through, in order:
\* router.get('/me', authenticate, getCurrentUser); router.use(authenticate)
\* before the recordings routes; app.post('/api/transcribe', authenticate,
\* ...); app.post('/api/analyze', authenticate, ...); app.get('/api/health',
\* ...) and app.get('/api/models', ...) with none
Chain(route) ==
    IF route \in {"GET /api/health", "GET /api/models"}
      THEN <<"handler">>
      ELSE <<"authenticate", "handler">>

\* route, header, tok: the request; userId: decoded.userId; user: req.user
\* (the _id of the document); nextCalled: authenticate called next();
\* handlerRan: the route's handler ran; status, code, error, bodyUser: the
\* response
IdleAReq ==
    [pc |-> "idle", route |-> "", header |-> "absent", tok |-> Malformed,
     userId |-> "", status |-> 0, code |-> "", error |-> "", user |-> "",
     nextCalled |-> FALSE, handlerRan |-> FALSE, bodyUser |-> ""]

InitAuth == areq = IdleAReq

AuthRespond(base, st, err, code) ==
    areq' = [base EXCEPT !.pc = "done", !.status = st, !.error = err,
                         !.code = code, !.userId = ""]

\* a request arrives and express runs the first middleware of its route
Dispatch(route) ==
    /\ areq.pc = "idle"
    /\ route \in Routes
    /\ areq' = [IdleAReq EXCEPT !.route = route,
                                !.pc = IF Head(Chain(route)) = "authenticate"
                                         THEN "auth" ELSE "handler"]
    /\ UNCHANGED <<users, now>>
    /\ UNCHANGED notAuth

\* authenticate up to the await: the header check and verifyAccessToken
AuthVerify(h, tok) ==
    /\ areq.pc = "auth"
    /\ h \in AuthHeaders /\ tok \in PresentedTokens
    /\ h # "bearer" => tok = Malformed
    /\ LET base == [areq EXCEPT !.header = h, !.tok = tok]
           v == verifyAccessToken(tok, now)
       IN  IF h # "bearer"
             THEN AuthRespond(base, 401, "no token", "")
           ELSE IF v = "TokenExpiredError"
             THEN AuthRespond(base, 401, "token expired", "TOKEN_EXPIRED")
           ELSE IF v = "JsonWebTokenError"
             THEN AuthRespond(base, 401, "invalid token", "")
           ELSE IF v # "ok"
             THEN AuthRespond(base, 500, "authentication failed", "")
           ELSE areq' = [base EXCEPT !.pc = "findUser", !.userId = tok.userId]
    /\ UNCHANGED <<users, now>>
    /\ UNCHANGED notAuth

\* (mutation of AuthFindUser: a missing user is reported as an invalid token)
AuthFindUser_Generic(dbOk) ==
    /\ areq.pc = "findUser"
    /\ LET found == { u \in users : u.id = areq.userId }
       IN  IF ~dbOk
             THEN AuthRespond(areq, 500, "authentication failed", "")
           ELSE IF found = {}
             THEN AuthRespond(areq, 401, "invalid token", "")
           ELSE areq' = [areq EXCEPT !.pc = "handler", !.user = areq.userId,
                                     !.userId = "", !.nextCalled = TRUE]
    /\ UNCHANGED <<users, now>>
    /\ UNCHANGED notAuth

\* (mutation of AuthFindUser: the user must also hold a live session)
AuthFindUser_NeedsSession(dbOk) ==
    /\ areq.pc = "findUser"
    /\ LET found == { u \in users : /\ u.id = areq.userId
                                    /\ \E d \in ledger : d.userId = u.id }
       IN  IF ~dbOk
             THEN AuthRespond(areq, 500, "authentication failed", "")
           ELSE IF found = {}
             THEN AuthRespond(areq, 401, "user not found", "")
           ELSE areq' = [areq EXCEPT !.pc = "handler", !.user = areq.userId,
                                     !.userId = "", !.nextCalled = TRUE]
    /\ UNCHANGED <<users, now>>
    /\ UNCHANGED notAuth

\* await User.findById(decoded.userId); req.user = user; next()
AuthFindUser(dbOk) ==
    /\ areq.pc = "findUser"
    /\ LET found == { u \in users : u.id = areq.userId }
       IN  IF ~dbOk
             THEN AuthRespond(areq, 500, "authentication failed", "")
           ELSE IF found = {}
             THEN AuthRespond(areq, 401, "user not found", "")
           ELSE areq' = [areq EXCEPT !.pc = "handler", !.user = areq.userId,
                                     !.userId = "", !.nextCalled = TRUE]
    /\ UNCHANGED <<users, now>>
    /\ UNCHANGED notAuth

\* the handler of the route; getCurrentUser answers { user: req.user }
RunHandler ==
    /\ areq.pc = "handler"
    /\ areq' = [areq EXCEPT !.pc = "done", !.status = 200, !.handlerRan = TRUE,
                            !.bodyUser = IF areq.route = "GET /api/auth/me"
                                           THEN areq.user ELSE ""]
    /\ UNCHANGED <<users, now>>
    /\ UNCHANGED notAuth

\* the request is over
AuthForget ==
    /\ areq.pc = "done"
    /\ areq' = IdleAReq
    /\ UNCHANGED <<users, now>>
    /\ UNCHANGED notAuth

\* the clock, in milliseconds, around the expiry of the presented tokens
AuthClockValues ==
    {0} \cup { (i + JWT_EXPIRES_IN) * 1000 - 1 : i \in IssueSeconds }
        \cup { (i + JWT_EXPIRES_IN) * 1000 : i \in IssueSeconds }

AuthTick(t) ==
    /\ t \in AuthClockValues
    /\ t > now
    /\ now' = t
    /\ UNCHANGED <<users, areq>>
    /\ UNCHANGED notAuth

NextAuth ==
    \/ \E route \in Routes : Dispatch(route)
    \/ \E h \in AuthHeaders, tok \in PresentedTokens : AuthVerify(h, tok)
    \/ \E ok \in BOOLEAN : AuthFindUser(ok)
    \/ RunHandler
    \/ AuthForget
    \/ \E t \in AuthClockValues : AuthTick(t)

\* a client that presents, on GET /auth/me, an access token it was given (or
\* one that names a user whose record is gone), while sessions are opened
\* and closed
NextGuard ==
    \/ \E r \in ReqIds, e \in {"a@x.com"}, p \in {"Abcd1234"} :
          LoginFind(r, e, p, TRUE)
    \/ \E r \in ReqIds : LoginSaveUser(r, TRUE)
    \/ \E r \in ReqIds : LoginCreate(r, TRUE)
    \/ \E r \in ReqIds, c \in Cookies : Logout(r, c, TRUE)
    \/ \E r \in ReqIds : Forget(r)
    \/ Dispatch("GET /api/auth/me")
    \/ \E r \in ReqIds :
          reqs[r].pc = "done" /\ AuthVerify("bearer", reqs[r].accessToken)
    \/ AuthVerify("bearer", AccessToken("u9", "access", "good", 0))
    \/ \E ok \in BOOLEAN : AuthFindUser(ok)
    \/ RunHandler
    \/ AuthForget
    \/ AuthTick(JWT_EXPIRES_IN * 1000)

\* the clock while tokens are being issued: half-second instants over
\* MaxIssue seconds, so that an issue falls both on and between whole seconds
IssueClock == { i * 1000 + f : i \in 0 .. MaxIssue, f \in {0, 500} }

IssueTick ==
    /\ now + 500 \in IssueClock
    /\ now' = now + 500
    /\ UNCHANGED <<users, ledger, tokenCtr, reqs>>
    /\ UNCHANGED notServer

\* register, login and refresh handlers issuing tokens, one request at a time
IssueReqs == {1}

NextIssue ==
    \/ \E r \in IssueReqs, e \in {"b@x.com", "B@x.com"} :
          RegisterFind(r, e, "Abcd1234", "absent", TRUE)
    \/ \E r \in IssueReqs : RegisterSaveUser(r, TRUE)
    \/ \E r \in IssueReqs, ok \in BOOLEAN : RegisterCreate(r, ok)
    \/ \E r \in IssueReqs, e \in {"a@x.com", "b@x.com"} :
          LoginFind(r, e, "Abcd1234", TRUE)
    \/ \E r \in IssueReqs : LoginSaveUser(r, TRUE)
    \/ \E r \in IssueReqs : LoginCreate(r, TRUE)
    \/ \E r \in IssueReqs, c \in Cookies : RefreshFind(r, c, TRUE)
    \/ \E r \in IssueReqs, ok \in BOOLEAN : RefreshSave(r, ok)
    \/ \E r \in IssueReqs : Forget(r)
    \/ IssueTick

(***************************************************************************)
(* contexts/AuthContext.tsx: checkAndCleanAuth and the AuthProvider        *)
(* A single browser: its localStorage, its refreshToken cookie, and the    *)
(* server's answers to its login, refresh and logout calls.                *)
(***************************************************************************)
API_VERSION == "2.0"

\* localStorage.getItem('apiVersion'): "none" is null, "1.0" an older build's
StoredVersions == {"none", "1.0", "2.0"}

\* 1000 * 60 * 60 * 24
DAY == 1000 * 60 * 60 * 24

SESSION_DAYS == 7

\* localStorage.getItem('lastLogin') === null
NoStamp == << >>

\* new Date().toISOString(): the date and the time of day, to the millisecond
toISOString(t) == <<t \div DAY, t % DAY>>

\* new Date(lastLogin).getTime()
getTime(iso) == iso[1] * DAY + iso[2]

\* if (storedVersion !== API_VERSION)
VersionMismatch == lsApiVersion # API_VERSION

\* (mutation of SessionTooOld: a login of exactly seven days ago is too old)
SessionTooOld_AtSeven(t) ==
    /\ lsLastLoginIso # NoStamp
    /\ t - getTime(lsLastLoginIso) >= SESSION_DAYS * DAY

\* if (lastLogin) { ... daysSinceLogin = (now - loginTime) / DAY;
\* if (daysSinceLogin > 7)
SessionTooOld(t) ==
    /\ lsLastLoginIso # NoStamp
    /\ t - getTime(lsLastLoginIso) > SESSION_DAYS * DAY

\* (mutation of checkAndCleanAuth: the version marker is not compared)
checkAndCleanAuth_NoVersion(t) ==
    /\ lsApiVersion' = API_VERSION
    /\ lsLastLoginIso' = lsLastLoginIso
    /\ lsAccessToken' = IF SessionTooOld(t) THEN NoToken ELSE lsAccessToken
    /\ page'.isAuthValid = ~SessionTooOld(t)

\* checkAndCleanAuth(): what it leaves in localStorage and what it returns
\* (page'.isAuthValid)
checkAndCleanAuth(t) ==
    IF VersionMismatch
      THEN /\ lsAccessToken' = NoToken
           /\ lsLastLoginIso' = NoStamp
           /\ lsApiVersion' = API_VERSION
           /\ page'.isAuthValid = FALSE
    ELSE IF SessionTooOld(t)
      THEN /\ lsAccessToken' = NoToken
           /\ UNCHANGED <<lsLastLoginIso, lsApiVersion>>
           /\ page'.isAuthValid = FALSE
    ELSE /\ UNCHANGED <<lsAccessToken, lsLastLoginIso, lsApiVersion>>
         /\ page'.isAuthValid = TRUE

\* no page is open
ClosedPage == [pc |-> "closed", isAuthValid |-> FALSE, fetch |-> "none"]

\* the start-up variables where start-up is not looked at
StorageCurrent ==
    /\ lsApiVersion = API_VERSION
    /\ lsLastLoginIso = NoStamp
    /\ jar = NoToken
    /\ page = ClosedPage

\* The clock of the browser's days: a login at the start or in the fourth
\* day, and starts one lifetime after either, to the millisecond.
StartClock ==
    {0, 3 * DAY + 1, SESSION_DAYS * DAY, SESSION_DAYS * DAY + 1}
      \cup { (SESSION_DAYS + 3) * DAY + 1 + j : j \in 0 .. MaxSlack }

StartTick(t) ==
    /\ t \in StartClock
    /\ t > now
    /\ now' = t
    /\ UNCHANGED <<users, ledger, tokenCtr, reqs>>
    /\ UNCHANGED <<clientVars, authVars, startVars, memVars, extVars>>

\* the clientVars that start-up leaves alone
pageRest == <<creqs, isRefreshing, failedQueue, redirectPending, location>>

\* the AuthProvider's useEffect: checkAndCleanAuth(), then
\* if (token && isAuthValid) fetchCurrentUser()
PageStart ==
    /\ page.pc = "closed"
    /\ page' \in [pc : {"open"}, isAuthValid : BOOLEAN, fetch : {"sent", "none"}]
    /\ checkAndCleanAuth(now)
    /\ lsLastLogin' = (lsLastLoginIso' # NoStamp)
    /\ page'.fetch = IF lsAccessToken' # NoToken /\ page'.isAuthValid
                       THEN "sent" ELSE "none"
    /\ UNCHANGED <<jar, atCtr>>
    /\ UNCHANGED pageRest
    /\ UNCHANGED <<serverVars, authVars, memVars, extVars>>

\* fetchCurrentUser() settles: setUser on success, and in the catch block
\* localStorage.removeItem('accessToken'), removeItem('lastLogin')
FetchSettled(ok) ==
    /\ page.pc = "open" /\ page.fetch = "sent"
    /\ page' = [page EXCEPT !.fetch = IF ok THEN "ok" ELSE "failed"]
    /\ IF ok
         THEN UNCHANGED <<lsAccessToken, lsLastLogin, lsLastLoginIso>>
         ELSE /\ lsAccessToken' = NoToken
              /\ lsLastLogin' = FALSE
              /\ lsLastLoginIso' = NoStamp
    /\ UNCHANGED <<lsApiVersion, jar, atCtr>>
    /\ UNCHANGED pageRest
    /\ UNCHANGED <<serverVars, authVars, memVars, extVars>>

\* login() answered 200 (register() stores the same three items): the server
\* stamped the user, created a ledger record and set the cookie; the client
\* stores the access token, the instant and the version
LoginStored ==
    /\ page.pc = "open"
    /\ tokenCtr < MaxTokens /\ atCtr < MaxTokens
    /\ users' = { IF u.id = "u1" THEN [u EXCEPT !.lastLoginAt = now] ELSE u
                  : u \in users }
    /\ ledger' = LedgerCreate(generateRefreshToken, "u1", getRefreshTokenExpiry)
    /\ tokenCtr' = tokenCtr + 1
    /\ jar' = generateRefreshToken
    /\ lsAccessToken' = atCtr + 1
    /\ atCtr' = atCtr + 1
    /\ lsLastLogin' = TRUE
    /\ lsLastLoginIso' = toISOString(now)
    /\ lsApiVersion' = API_VERSION
    /\ UNCHANGED <<now, reqs, page>>
    /\ UNCHANGED pageRest
    /\ UNCHANGED <<authVars, memVars, extVars>>

\* refreshToken() answered 200: the server rotated the record of the cookie
\* and set the new cookie; the client stores the access token only
RefreshStored ==
    /\ page.pc = "open"
    /\ tokenCtr < MaxTokens /\ atCtr < MaxTokens
    /\ jar # NoToken /\ LedgerFindOne(jar, now) # {}
    /\ ledger' = LedgerSave((CHOOSE d \in LedgerFindOne(jar, now) : TRUE).id,
                            generateRefreshToken, getRefreshTokenExpiry)
    /\ tokenCtr' = tokenCtr + 1
    /\ jar' = generateRefreshToken
    /\ lsAccessToken' = atCtr + 1
    /\ atCtr' = atCtr + 1
    /\ UNCHANGED <<lsLastLogin, lsLastLoginIso, lsApiVersion, page>>
    /\ UNCHANGED <<users, now, reqs>>
    /\ UNCHANGED pageRest
    /\ UNCHANGED <<authVars, memVars, extVars>>

\* refreshToken() answered 401 (no cookie, or no unexpired record): the
\* interceptor's catch block removes accessToken and lastLogin
RefreshRefused ==
    /\ page.pc = "open"
    /\ jar = NoToken \/ LedgerFindOne(jar, now) = {}
    /\ lsAccessToken' = NoToken
    /\ lsLastLogin' = FALSE
    /\ lsLastLoginIso' = NoStamp
    /\ UNCHANGED <<lsApiVersion, jar, page, atCtr>>
    /\ UNCHANGED pageRest
    /\ UNCHANGED <<serverVars, authVars, memVars, extVars>>

\* logout(): the server deletes the cookie's record and clears the cookie;
\* the finally block removes accessToken and lastLogin
LogoutStored ==
    /\ page.pc = "open"
    /\ ledger' = IF jar # NoToken THEN LedgerDeleteOne(jar) ELSE ledger
    /\ jar' = NoToken
    /\ lsAccessToken' = NoToken
    /\ lsLastLogin' = FALSE
    /\ lsLastLoginIso' = NoStamp
    /\ UNCHANGED <<lsApiVersion, page, atCtr>>
    /\ UNCHANGED <<users, now, tokenCtr, reqs>>
    /\ UNCHANGED pageRest
    /\ UNCHANGED <<authVars, memVars, extVars>>

\* the tab is closed; localStorage and the cookie stay
PageClose ==
    /\ page.pc = "open"
    /\ page' = ClosedPage
    /\ UNCHANGED <<lsApiVersion, lsLastLoginIso, jar>>
    /\ UNCHANGED <<clientVars, serverVars, authVars, memVars, extVars>>

NextStartup ==
    \/ PageStart
    \/ \E ok \in BOOLEAN : FetchSettled(ok)
    \/ LoginStored
    \/ RefreshStored
    \/ RefreshRefused
    \/ LogoutStored
    \/ PageClose
    \/ \E t \in StartClock : StartTick(t)

(***************************************************************************)
(* config/memoryDb.js: RefreshTokenModel, next to the persistent ledger    *)
(* Every operation is applied to both stores; each store answers from its  *)
(* own contents.                                                           *)
(***************************************************************************)
\* const refreshTokens = new Map()
MemEmpty ==
    /\ refreshTokens = << >>
    /\ tokenObjs = << >>

\* map.set(key, value) on a Map held as a function
MapSet(m, k, v) == [x \in DOMAIN m \cup {k} |-> IF x = k THEN v ELSE m[x]]

\* map.delete(key)
MapDelete(m, k) == [x \in DOMAIN m \ {k} |-> m[x]]

\* RefreshTokenModel.findOne(query): refreshTokens.get(query.token), returned
\* when token.expiresAt > query.expiresAt.$gt; the result is the set of
\* objects found (empty: null)
MemFindOne(tok, t) ==
    IF tok \in DOMAIN refreshTokens
         /\ tokenObjs[refreshTokens[tok]].expiresAt > t
      THEN {refreshTokens[tok]}
      ELSE {}

\* what a caller reads from the document a lookup returned
DocView(d) == [token |-> d.token, userId |-> d.userId, expiresAt |-> d.expiresAt]

\* the answers of the two stores to findOne({ token, expiresAt: { $gt: t } })
MemAnswer(tok, t) == { DocView(tokenObjs[o]) : o \in MemFindOne(tok, t) }

LedgerAnswer(tok, t) == { DocView(d) : d \in LedgerFindOne(tok, t) }

StoreUsers == {"u1", "u2"}

\* RefreshToken.create({ token, userId, expiresAt }): in memory,
\* new RefreshTokenModel(data) and save(), which is refreshTokens.set(this.token, this)
StoreCreate(uid) ==
    /\ tokenCtr < MaxTokens
    /\ tokenCtr' = tokenCtr + 1
    /\ ledger' = LedgerCreate(generateRefreshToken, uid, getRefreshTokenExpiry)
    /\ tokenObjs' = MapSet(tokenObjs, generateRefreshToken,
                           [token |-> generateRefreshToken, userId |-> uid,
                            expiresAt |-> getRefreshTokenExpiry])
    /\ refreshTokens' = MapSet(refreshTokens, generateRefreshToken,
                               generateRefreshToken)
    /\ UNCHANGED <<users, now, reqs>>
    /\ UNCHANGED <<clientVars, authVars, startVars, extVars>>

\* the rotation of refreshAccessToken for the cookie tok: findOne, then
\* tokenDoc.token = newRefreshToken; tokenDoc.expiresAt = ...; tokenDoc.save().
\* In memory save() is refreshTokens.set(this.token, this): the object is
\* entered under its new token.
StoreRotate(tok) ==
    /\ tok \in Cookies \ {NoToken}
    /\ tokenCtr < MaxTokens
    /\ LedgerFindOne(tok, now) # {} \/ MemFindOne(tok, now) # {}
    /\ tokenCtr' = tokenCtr + 1
    /\ ledger' = IF LedgerFindOne(tok, now) # {}
                   THEN LedgerSave((CHOOSE d \in LedgerFindOne(tok, now) : TRUE).id,
                                   generateRefreshToken, getRefreshTokenExpiry)
                   ELSE ledger
    /\ IF MemFindOne(tok, now) # {}
         THEN LET o == refreshTokens[tok]
              IN  /\ tokenObjs' = [tokenObjs EXCEPT
                                     ![o].token = generateRefreshToken,
                                     ![o].expiresAt = getRefreshTokenExpiry]
                  /\ refreshTokens' = MapSet(refreshTokens, generateRefreshToken, o)
         ELSE UNCHANGED memVars
    /\ UNCHANGED <<users, now, reqs>>
    /\ UNCHANGED <<clientVars, authVars, startVars, extVars>>

\* RefreshToken.deleteOne({ token }): in memory refreshTokens.delete(query.token)
StoreDelete(tok) ==
    /\ tok \in Cookies \ {NoToken}
    /\ ledger' = LedgerDeleteOne(tok)
    /\ refreshTokens' = MapDelete(refreshTokens, tok)
    /\ UNCHANGED tokenObjs
    /\ UNCHANGED <<users, now, tokenCtr, reqs>>
    /\ UNCHANGED <<clientVars, authVars, startVars, extVars>>

NextStore ==
    \/ \E uid \in StoreUsers : StoreCreate(uid)
    \/ \E tok \in Cookies : StoreRotate(tok)
    \/ \E tok \in Cookies : StoreDelete(tok)
    \/ \E d \in TickSteps : Tick(d)

(***************************************************************************)
(* The other AuthContext (STORAGE_KEYS, onAuthError): its refreshToken()   *)
(* and its 401 branch, run against this server.                            *)
(***************************************************************************)
\* API_ENDPOINTS, each endpoint by its priority
API_ENDPOINTS == {1, 2, 3}

\* currentEndpoint: null
NoEndpoint == 0

\* the endpoint made from import.meta.env.VITE_API_URL ('Environment Config')
EnvEndpoint == 4

MaxCalls == 2

CallIds == 1 .. MaxCalls

IdleCall == [pc |-> "idle", error |-> "", result |-> FALSE]

\* new ApiConfigManager() without VITE_API_URL: the fields' initial values,
\* initializeEndpoint waiting for checkAllEndpoints
ApiIdle ==
    /\ currentEndpoint = NoEndpoint
    /\ availableEndpoints = << >>
    /\ failoverInProgress = FALSE
    /\ preferredApiEndpoint = NoEndpoint
    /\ initPc = "checking"
    /\ calls = [c \in CallIds |-> IdleCall]

\* the other AuthContext, the recording handlers and the recorder hook, not
\* started
OtherIdle ==
    /\ lsRefreshToken = NoToken
    /\ recordings = {}
    /\ recFiles = {"f1"}
    /\ recCtr = 0
    /\ recResp = [op |-> "none", user |-> "", id |-> 0, status |-> 0,
                  body |-> << >>, total |-> 0]
    /\ isRecording = FALSE
    /\ isPaused = FALSE
    /\ audioURL = FALSE
    /\ recorderError = FALSE
    /\ mediaRecorder = "null"
    /\ startPending = FALSE
    /\ stopQueued = FALSE
    /\ orphan = FALSE

\* the subsystems outside the auth core, not started
ExtIdle == OtherIdle /\ ApiIdle

\* what this client's steps leave alone
notAlt == <<serverVars, authVars, startVars, memVars, recVars, hookVars,
           apiVars>>

\* response.data.refreshToken of the server's answers to /auth/login,
\* /auth/register and /auth/refresh: the bodies are
\* { message, user, accessToken } and { accessToken }, with no such field
BodyRefreshToken(kind) == NoToken

\* refreshToken(): const refreshToken = localStorage.getItem(REFRESH_TOKEN);
\* if (!refreshToken) throw new Error('No refresh token available')
refreshTokenAvailable == lsRefreshToken # NoToken

\* a 2xx response: login() and register() store accessToken, the body's
\* refreshToken if it has one, and lastLogin; refreshToken() stores
\* accessToken and the body's refreshToken if it has one
AltRespondOk(r) ==
    /\ location = "app"
    /\ creqs[r].st = "sent"
    /\ IF creqs[r].kind = "refresh"
         THEN /\ RenewalSucceeded(r, atCtr + 1)
              /\ lsRefreshToken' = IF BodyRefreshToken("refresh") # NoToken
                                     THEN BodyRefreshToken("refresh")
                                     ELSE lsRefreshToken
       ELSE IF creqs[r].kind \in {"login", "register"}
         THEN /\ creqs' = [creqs EXCEPT ![r].st = "resolved", ![r].resp = "ok"]
              /\ lsAccessToken' = atCtr + 1
              /\ atCtr' = atCtr + 1
              /\ lsRefreshToken' = IF BodyRefreshToken(creqs[r].kind) # NoToken
                                     THEN BodyRefreshToken(creqs[r].kind)
                                     ELSE lsRefreshToken
              /\ lsLastLogin' = TRUE
              /\ UNCHANGED <<isRefreshing, failedQueue, redirectPending, location>>
       ELSE /\ creqs' = [creqs EXCEPT ![r].st = "resolved", ![r].resp = "ok"]
            /\ UNCHANGED <<isRefreshing, failedQueue, lsAccessToken,
                           lsLastLogin, atCtr, redirectPending, location>>
            /\ UNCHANGED lsRefreshToken
    /\ UNCHANGED notAlt

\* the 401 branch of this client's response interceptor for request r.  With
\* nothing stored under refreshToken, refreshToken() throws before any call
\* is made and the catch block runs in the same task: processQueue(error),
\* the three removeItem calls, the redirect timer; finally lowers the flag.
AltRenewalProtocol(r, tag) ==
    IF RetryGuard(r) \/ ExcludedUrl(creqs[r].kind)
      THEN Reject(r, tag) /\ UNCHANGED lsRefreshToken
    ELSE IF RefreshUnderway
      THEN /\ creqs' = [creqs EXCEPT ![r].st = "queued", ![r].resp = tag]
           /\ failedQueue' = Append(failedQueue, r)
           /\ UNCHANGED <<isRefreshing, lsAccessToken, lsLastLogin, atCtr,
                          redirectPending, location>>
           /\ UNCHANGED lsRefreshToken
    ELSE IF ~refreshTokenAvailable
      THEN /\ creqs' = [q \in CReqIds |->
                          IF q = r
                            THEN [creqs[q] EXCEPT !.retry = TRUE,
                                                  !.st = "rejected", !.resp = tag]
                          ELSE IF q \in Queued
                            THEN [creqs[q] EXCEPT !.st = "rejected"]
                          ELSE creqs[q]]
           /\ failedQueue' = << >>
           /\ lsAccessToken' = NoToken
           /\ lsRefreshToken' = NoToken
           /\ lsLastLogin' = FALSE
           /\ redirectPending' = TRUE
           /\ isRefreshing' = FALSE
           /\ UNCHANGED <<atCtr, location>>
    ELSE \E c \in CReqIds :
           /\ FreeSlot(c)
           /\ Cardinality(RefreshCalls) < MaxRefreshCalls
           /\ creqs' = [creqs EXCEPT
                  ![r] = [@ EXCEPT !.retry = TRUE, !.st = "awaiting",
                                   !.resp = tag],
                  ![c] = [IdleCReq EXCEPT !.kind = "refresh", !.st = "sent",
                                          !.auth = RequestInterceptor(NoToken),
                                          !.parent = r]]
           /\ isRefreshing' = TRUE
           /\ UNCHANGED <<failedQueue, lsAccessToken, lsLastLogin, atCtr,
                          redirectPending, location>>
           /\ UNCHANGED lsRefreshToken

\* a 401 response
AltRespond401(r) ==
    /\ location = "app"
    /\ creqs[r].st = "sent"
    /\ AltRenewalProtocol(r, "401")
    /\ UNCHANGED notAlt

\* this client against this server: the interceptor branches that the two
\* AuthContexts share are those of the first
NextAlt ==
    \/ \E r \in CReqIds, k \in UserKinds : Issue(r, k)
    \/ \E r \in CReqIds : AltRespondOk(r)
    \/ \E r \in CReqIds : AltRespond401(r)
    \/ \E r \in CReqIds : RespondError(r)
    \/ \E r \in CReqIds : NetworkError(r)
    \/ RedirectFire

(***************************************************************************)
(* controllers/recordingController.js on models/UserRecording.js.  Every   *)
(* route is behind authenticate: u is req.user._id.                        *)
(***************************************************************************)
\* what the recording handlers leave alone
notRec == <<serverVars, clientVars, authVars, startVars, memVars, altVars,
           hookVars, apiVars>>

MaxRecordings == 2

\* the users that authenticate lets through
RecUsers == {"u1", "u2"}

\* req.body.recordingId
RecNames == {"a", "b"}

\* req.body.filePath: the uploaded file
RecPaths == {"f1"}

\* req.body.transcription, req.body.analysis: absent, or a value
RecTexts == {"", "t"}

\* req.query.page, req.query.limit
RecPages == {1, 2}

RecLimits == {1, 20}

\* req.params.id: an _id given out so far (held by a recording, or deleted,
\* or never saved)
RecIds == 1 .. recCtr

\* a recording in a response body, by its _id and its owner
RecView(d) == [id |-> d.id, userId |-> d.userId]

\* res.status(st).json(...) of the recording handlers
RecRespond(op, u, id, st, body, total) ==
    recResp' = [op |-> op, user |-> u, id |-> id, status |-> st,
                body |-> body, total |-> total]

\* (mutation of RecFindOne: the filter has the _id only)
RecFindOne_AnyOwner(id, u) == { d \in recordings : d.id = id }

\* the filter { _id: req.params.id, userId: req.user._id } of findOne,
\* findOneAndUpdate and findOneAndDelete
RecFindOne(id, u) == { d \in recordings : d.id = id /\ d.userId = u }

\* UserRecording.find({ userId })
RecFind(u) == { d \in recordings : d.userId = u }

\* .sort({ createdAt: -1 }): the latest first (ids are given out in order of
\* creation)
SortDesc(S) ==
    CHOOSE q \in [1 .. Cardinality(S) -> S] :
        \A i, j \in 1 .. Cardinality(S) : i < j => q[i].id > q[j].id

\* .limit(n).skip(k): k documents are passed over, then at most n returned
LimitSkip(q, n, k) ==
    IF k + 1 > Len(q) THEN << >>
    ELSE SubSeq(q, k + 1, IF k + n < Len(q) THEN k + n ELSE Len(q))

\* saveRecording: new UserRecording({ userId: req.user._id, recordingId, ... })
\* and save().  A userId in the body is not read.  save() rejects on a
\* recordingId already in the collection (unique index) or when the store fails.
SaveRecording(u, bodyUserId, rid, fp, tr, dbOk) ==
    /\ recCtr < MaxRecordings
    /\ recCtr' = recCtr + 1
    /\ LET rec == [id |-> recCtr + 1, userId |-> u, recordingId |-> rid,
                   filePath |-> fp, transcription |-> tr, analysis |-> ""]
       IN  IF dbOk /\ \A d \in recordings : d.recordingId # rid
             THEN /\ recordings' = recordings \cup {rec}
                  /\ RecRespond("save", u, rec.id, 201, <<RecView(rec)>>, 0)
             ELSE /\ UNCHANGED recordings
                  /\ RecRespond("save", u, 0, 500, << >>, 0)
    /\ UNCHANGED recFiles
    /\ UNCHANGED notRec

\* getRecording: findOne, 404 when nothing is found
GetRecording(u, id, dbOk) ==
    /\ id \in RecIds
    /\ IF ~dbOk
         THEN RecRespond("get", u, id, 500, << >>, 0)
       ELSE IF RecFindOne(id, u) = {}
         THEN RecRespond("get", u, id, 404, << >>, 0)
       ELSE RecRespond("get", u, id, 200,
                       <<RecView(CHOOSE d \in RecFindOne(id, u) : TRUE)>>, 0)
    /\ UNCHANGED <<recordings, recFiles, recCtr>>
    /\ UNCHANGED notRec

\* updateRecording: findOneAndUpdate with $set of the transcription and the
\* analysis that the body has (a falsy value sets nothing), { new: true }
UpdateRecording(u, id, tr, an, dbOk) ==
    /\ id \in RecIds
    /\ IF ~dbOk
         THEN /\ RecRespond("update", u, id, 500, << >>, 0)
              /\ UNCHANGED recordings
       ELSE IF RecFindOne(id, u) = {}
         THEN /\ RecRespond("update", u, id, 404, << >>, 0)
              /\ UNCHANGED recordings
       ELSE LET d == CHOOSE x \in RecFindOne(id, u) : TRUE
                e == [d EXCEPT
                        !.transcription = IF tr # "" THEN tr ELSE @,
                        !.analysis = IF an # "" THEN an ELSE @]
            IN  /\ recordings' = (recordings \ {d}) \cup {e}
                /\ RecRespond("update", u, id, 200, <<RecView(e)>>, 0)
    /\ UNCHANGED <<recFiles, recCtr>>
    /\ UNCHANGED notRec

\* deleteRecording: findOneAndDelete, then fs.unlink(recording.filePath),
\* whose failure is logged and passed over
DeleteRecording(u, id, dbOk, unlinkOk) ==
    /\ id \in RecIds
    /\ IF ~dbOk
         THEN /\ RecRespond("delete", u, id, 500, << >>, 0)
              /\ UNCHANGED <<recordings, recFiles>>
       ELSE IF RecFindOne(id, u) = {}
         THEN /\ RecRespond("delete", u, id, 404, << >>, 0)
              /\ UNCHANGED <<recordings, recFiles>>
       ELSE LET d == CHOOSE x \in RecFindOne(id, u) : TRUE
            IN  /\ recordings' = recordings \ {d}
                /\ recFiles' = IF unlinkOk THEN recFiles \ {d.filePath}
                               ELSE recFiles
                /\ RecRespond("delete", u, id, 200, << >>, 0)
    /\ UNCHANGED recCtr
    /\ UNCHANGED notRec

\* getUserRecordings: find({ userId }).sort().limit().skip() and
\* countDocuments({ userId }), both on the collection as it is
ListRecordings(u, pg, lim, dbOk) ==
    /\ IF dbOk
         THEN LET q == LimitSkip(SortDesc(RecFind(u)), lim, (pg - 1) * lim)
              IN  RecRespond("list", u, 0, 200,
                             [i \in 1 .. Len(q) |-> RecView(q[i])],
                             Cardinality(RecFind(u)))
         ELSE RecRespond("list", u, 0, 500, << >>, 0)
    /\ UNCHANGED <<recordings, recFiles, recCtr>>
    /\ UNCHANGED notRec

NextRecordings ==
    \/ \E u \in RecUsers, b \in RecUsers, rid \in RecNames, fp \in RecPaths,
          tr \in RecTexts, ok \in BOOLEAN : SaveRecording(u, b, rid, fp, tr, ok)
    \/ \E u \in RecUsers, id \in RecIds, ok \in BOOLEAN : GetRecording(u, id, ok)
    \/ \E u \in RecUsers, id \in RecIds, tr \in RecTexts, an \in RecTexts,
          ok \in BOOLEAN : UpdateRecording(u, id, tr, an, ok)
    \/ \E u \in RecUsers, id \in RecIds, ok \in BOOLEAN, fo \in BOOLEAN :
          DeleteRecording(u, id, ok, fo)
    \/ \E u \in RecUsers, pg \in RecPages, lim \in RecLimits, ok \in BOOLEAN :
          ListRecordings(u, pg, lim, ok)

(***************************************************************************)
(* hooks/useRecorder.ts.  The component is rendered after every state      *)
(* update, so the callbacks see the state as it is.  mediaRecorder is the  *)
(* state attribute of the recorder in mediaRecorderRef ("null": no         *)
(* recorder yet).                                                          *)
(***************************************************************************)
\* what the hook leaves alone
notHook == <<serverVars, clientVars, authVars, startVars, memVars, altVars,
            recVars, apiVars>>

\* the recorder is gathering data or paused
Active == mediaRecorder \in {"recording", "paused"}

\* startRecording up to await navigator.mediaDevices.getUserMedia
StartCall ==
    /\ ~startPending
    /\ startPending' = TRUE
    /\ UNCHANGED <<isRecording, isPaused, audioURL, recorderError,
                   mediaRecorder, stopQueued, orphan>>
    /\ UNCHANGED notHook

\* startRecording after the await.  granted: a new MediaRecorder takes the
\* place of the one in the ref (which goes on if it was active), start(1000),
\* setState({ isRecording: true, error: null }).  Otherwise the catch block:
\* setState({ error, isRecording: false }).
StartSettle(granted) ==
    /\ startPending
    /\ startPending' = FALSE
    /\ IF granted
         THEN /\ mediaRecorder' = "recording"
              /\ orphan' = (orphan \/ Active)
              /\ isRecording' = TRUE
              /\ recorderError' = FALSE
         ELSE /\ isRecording' = FALSE
              /\ recorderError' = TRUE
              /\ UNCHANGED <<mediaRecorder, orphan>>
    /\ UNCHANGED <<isPaused, audioURL, stopQueued>>
    /\ UNCHANGED notHook

\* stopRecording: mediaRecorderRef.current.stop() when there is a recorder
\* and state.isRecording; stop() on an inactive recorder does nothing to it
stopRecording ==
    /\ mediaRecorder # "null" /\ isRecording
    /\ IF Active
         THEN mediaRecorder' = "inactive" /\ stopQueued' = TRUE
         ELSE UNCHANGED <<mediaRecorder, stopQueued>>
    /\ UNCHANGED <<isRecording, isPaused, audioURL, recorderError,
                   startPending, orphan>>
    /\ UNCHANGED notHook

\* mediaRecorder.onstop: the blob and its URL, isRecording and isPaused false
onstop ==
    /\ stopQueued
    /\ stopQueued' = FALSE
    /\ audioURL' = TRUE
    /\ isRecording' = FALSE
    /\ isPaused' = FALSE
    /\ UNCHANGED <<recorderError, mediaRecorder, startPending, orphan>>
    /\ UNCHANGED notHook

\* the recorder can no longer gather data: it is made inactive, then
\* mediaRecorder.onerror (error, isRecording false) and onstop run in turn
onerror ==
    /\ Active
    /\ mediaRecorder' = "inactive"
    /\ recorderError' = TRUE
    /\ audioURL' = TRUE
    /\ isRecording' = FALSE
    /\ isPaused' = FALSE
    /\ UNCHANGED <<startPending, stopQueued, orphan>>
    /\ UNCHANGED notHook

\* the replaced recorder ends (its track ends): its onstop runs
OrphanStops ==
    /\ orphan
    /\ orphan' = FALSE
    /\ audioURL' = TRUE
    /\ isRecording' = FALSE
    /\ isPaused' = FALSE
    /\ UNCHANGED <<recorderError, mediaRecorder, startPending, stopQueued>>
    /\ UNCHANGED notHook

\* pauseRecording: pause() and setState({ isPaused: true }) when there is a
\* recorder, state.isRecording and not state.isPaused; pause() throws on an
\* inactive recorder, before the state is set
pauseRecording ==
    /\ mediaRecorder # "null" /\ isRecording /\ ~isPaused
    /\ IF Active
         THEN mediaRecorder' = "paused" /\ isPaused' = TRUE
         ELSE UNCHANGED <<mediaRecorder, isPaused>>
    /\ UNCHANGED <<isRecording, audioURL, recorderError, startPending,
                   stopQueued, orphan>>
    /\ UNCHANGED notHook

\* resumeRecording: resume() and setState({ isPaused: false }) when there is
\* a recorder, state.isRecording and state.isPaused
resumeRecording ==
    /\ mediaRecorder # "null" /\ isRecording /\ isPaused
    /\ IF Active
         THEN mediaRecorder' = "recording" /\ isPaused' = FALSE
         ELSE UNCHANGED <<mediaRecorder, isPaused>>
    /\ UNCHANGED <<isRecording, audioURL, recorderError, startPending,
                   stopQueued, orphan>>
    /\ UNCHANGED notHook

\* resetRecording: the URL is revoked and the state is the initial one; the
\* recorder in the ref is not touched
resetRecording ==
    /\ isRecording' = FALSE
    /\ isPaused' = FALSE
    /\ audioURL' = FALSE
    /\ recorderError' = FALSE
    /\ UNCHANGED <<mediaRecorder, startPending, stopQueued, orphan>>
    /\ UNCHANGED notHook

NextRecorder ==
    \/ StartCall
    \/ \E granted \in BOOLEAN : StartSettle(granted)
    \/ stopRecording
    \/ onstop
    \/ onerror
    \/ OrphanStops
    \/ pauseRecording
    \/ resumeRecording
    \/ resetRecording

(***************************************************************************)
(* ApiConfigManager: handleRequestFailure, shouldTriggerFailover,          *)
(* checkAllEndpoints, initializeEndpoint.  The assignment that ends        *)
(* checkAllEndpoints and the code that follows the await run with nothing  *)
(* in between: they are one step.                                          *)
(***************************************************************************)
\* what the manager leaves alone
notApi == <<serverVars, clientVars, authVars, startVars, memVars, altVars,
           recVars, hookVars>>

\* the errors that the axios instance hands over: no response (network
\* failure; timeout, with code ECONNABORTED), or a response with its status
ApiErrors == {"network", "timeout", "404", "500", "503"}

HasResponse(error) == error \in {"404", "500", "503"}

Status(error) ==
    IF error = "404" THEN 404 ELSE IF error = "500" THEN 500 ELSE 503

Code(error) == IF error = "timeout" THEN "ECONNABORTED" ELSE ""

\* (mutation of shouldTriggerFailover: every error triggers)
shouldTriggerFailover_Always(error) == TRUE

\* shouldTriggerFailover: !error.response, status >= 500, code ECONNABORTED
shouldTriggerFailover(error) ==
    \/ ~HasResponse(error)
    \/ Status(error) >= 500
    \/ Code(error) = "ECONNABORTED"

\* checkAllEndpoints for the health results H: the healthy endpoints sorted
\* by priority
SortByPriority(H) ==
    CHOOSE q \in [1 .. Cardinality(H) -> H] :
        \A i, j \in 1 .. Cardinality(H) : i < j => q[i] < q[j]

\* availableEndpoints.find(ep => ep.url !== this.currentEndpoint?.url)
FindNext(av, cur) ==
    LET I == { i \in 1 .. Len(av) : av[i] # cur }
    IN  IF I = {} THEN NoEndpoint
        ELSE av[CHOOSE i \in I : \A j \in I : i <= j]

\* initializeEndpoint after its checkAllEndpoints: the first available
\* endpoint, or API_ENDPOINTS[0] when none is
InitializeSettle(H) ==
    /\ initPc = "checking"
    /\ initPc' = "done"
    /\ availableEndpoints' = SortByPriority(H)
    /\ currentEndpoint' = IF H # {} THEN SortByPriority(H)[1] ELSE 1
    /\ UNCHANGED <<failoverInProgress, preferredApiEndpoint, calls>>
    /\ UNCHANGED notApi

\* handleRequestFailure(error) up to its await: false at once while a
\* failover is in progress or when the error does not trigger one; otherwise
\* the flag is raised and checkAllEndpoints is under way
HandleStart(c, error) ==
    /\ calls[c].pc = "idle"
    /\ \A b \in CallIds : b < c => calls[b].pc # "idle"
    /\ IF failoverInProgress \/ ~shouldTriggerFailover(error)
         THEN /\ calls' = [calls EXCEPT ![c] =
                             [pc |-> "done", error |-> error, result |-> FALSE]]
              /\ UNCHANGED failoverInProgress
         ELSE /\ calls' = [calls EXCEPT ![c] =
                             [pc |-> "checking", error |-> error,
                              result |-> FALSE]]
              /\ failoverInProgress' = TRUE
    /\ UNCHANGED <<currentEndpoint, availableEndpoints, preferredApiEndpoint,
                   initPc>>
    /\ UNCHANGED notApi

\* handleRequestFailure after checkAllEndpoints with the health results H:
\* the switch to the next endpoint if there is one, and finally the flag
HandleSettle(c, H) ==
    /\ calls[c].pc = "checking"
    /\ availableEndpoints' = SortByPriority(H)
    /\ LET nextEndpoint == FindNext(SortByPriority(H), currentEndpoint)
       IN  IF nextEndpoint # NoEndpoint
             THEN /\ currentEndpoint' = nextEndpoint
                  /\ preferredApiEndpoint' = nextEndpoint
                  /\ calls' = [calls EXCEPT ![c].pc = "done",
                                            ![c].result = TRUE]
             ELSE /\ calls' = [calls EXCEPT ![c].pc = "done"]
                  /\ UNCHANGED <<currentEndpoint, preferredApiEndpoint>>
    /\ failoverInProgress' = FALSE
    /\ UNCHANGED initPc
    /\ UNCHANGED notApi

\* the caller has taken the result
HandleForget(c) ==
    /\ calls[c].pc = "done"
    /\ calls' = [calls EXCEPT ![c] = IdleCall]
    /\ UNCHANGED <<currentEndpoint, availableEndpoints, failoverInProgress,
                   preferredApiEndpoint, initPc>>
    /\ UNCHANGED notApi

NextFailover ==
    \/ \E H \in SUBSET API_ENDPOINTS : InitializeSettle(H)
    \/ \E c \in CallIds, error \in ApiErrors : HandleStart(c, error)
    \/ \E c \in CallIds, H \in SUBSET API_ENDPOINTS : HandleSettle(c, H)
    \/ \E c \in CallIds : HandleForget(c)

(***************************************************************************)
(* Specifications                                                          *)
(***************************************************************************)
\* the server in service, no page loaded, no request in the middleware
InitSession == InitServer /\ ClientLoaded(NoToken) /\ InitAuth /\ StorageCurrent /\ MemEmpty /\ ExtIdle

SpecSession == InitSession /\ [][NextSession]_vars

\* a page that has just loaded, with what earlier visits left in localStorage
InitPage ==
    \E tok \in {NoToken, 1} :
       ClientLoaded(tok) /\ InitServer /\ InitAuth /\ StorageCurrent /\ MemEmpty /\ ExtIdle

SpecClient == InitPage /\ [][NextClient]_vars

\* the server in service against the accounts registered earlier
InitAccounts == InitServer /\ ClientLoaded(NoToken) /\ InitAuth /\ StorageCurrent /\ MemEmpty /\ ExtIdle

SpecAccounts == InitAccounts /\ [][NextAccounts]_vars

InitIssue == InitServer /\ ClientLoaded(NoToken) /\ InitAuth /\ StorageCurrent /\ MemEmpty /\ ExtIdle

SpecIssue == InitIssue /\ [][NextIssue]_vars

\* No page is open.  localStorage holds what earlier visits, possibly of an
\* older build, left: any apiVersion, and no access token or the token and
\* lastLogin of a login at instant 0.
InitStartup ==
    \E v \in StoredVersions, tok \in {NoToken, 1} :
       /\ InitServer /\ ClientLoaded(tok) /\ InitAuth
       /\ lsApiVersion = v
       /\ lsLastLoginIso = IF tok # NoToken THEN toISOString(0) ELSE NoStamp
       /\ jar = NoToken
       /\ page = ClosedPage
       /\ MemEmpty /\ ExtIdle

SpecStartup == InitStartup /\ [][NextStartup]_vars

InitStore == InitServer /\ ClientLoaded(NoToken) /\ InitAuth /\ StorageCurrent /\ MemEmpty /\ ExtIdle

SpecStore == InitStore /\ [][NextStore]_vars

\* the page has just loaded and nothing is stored: no login has been made yet
InitAlt == InitServer /\ ClientLoaded(NoToken) /\ InitAuth /\ StorageCurrent /\ MemEmpty /\ ExtIdle

SpecAlt == InitAlt /\ [][NextAlt]_vars

\* the server has started and no recording has been saved
InitRecordings == InitServer /\ ClientLoaded(NoToken) /\ InitAuth /\ StorageCurrent /\ MemEmpty /\ ExtIdle

SpecRecordings == InitRecordings /\ [][NextRecordings]_vars

\* the hook has been mounted
InitRecorder == InitServer /\ ClientLoaded(NoToken) /\ InitAuth /\ StorageCurrent /\ MemEmpty /\ ExtIdle

SpecRecorder == InitRecorder /\ [][NextRecorder]_vars

\* the manager has been constructed, with VITE_API_URL (currentEndpoint is
\* the endpoint made from it) or without
InitFailover ==
    /\ InitServer /\ ClientLoaded(NoToken) /\ InitAuth /\ StorageCurrent /\ MemEmpty
    /\ OtherIdle
    /\ availableEndpoints = << >>
    /\ failoverInProgress = FALSE
    /\ preferredApiEndpoint = NoEndpoint
    /\ calls = [c \in CallIds |-> IdleCall]
    /\ \/ currentEndpoint = NoEndpoint /\ initPc = "checking"
       \/ currentEndpoint = EnvEndpoint /\ initPc = "done"

SpecFailover == InitFailover /\ [][NextFailover]_vars

\* the server in service, no request anywhere
InitGuard == InitServer /\ ClientLoaded(NoToken) /\ InitAuth /\ StorageCurrent /\ MemEmpty /\ ExtIdle

SpecGuard == InitGuard /\ [][NextGuard]_vars

\* the middleware with no request in it
InitMiddleware == InitServer /\ ClientLoaded(NoToken) /\ InitAuth /\ StorageCurrent /\ MemEmpty /\ ExtIdle

SpecAuth == InitMiddleware /\ [][NextAuth]_vars

(***************************************************************************)
(* Properties of the server handlers                                       *)
(***************************************************************************)
IsDone(r, op) == reqs[r].pc = "done" /\ reqs[r].op = op

\* request a is a refresh that succeeded: it presented reqs[a].cookie and set
\* the cookie to reqs[a].setCookie
Rotated(a) == IsDone(a, "refresh") /\ reqs[a].status = 200

\* C1 (as claimed): of two refresh requests that presented the same refresh
\* token, never both are answered 200 -- exactly one rotates the token and the
\* other is refused.
C1_RefreshExactlyOnce ==
    \A a, b \in ReqIds :
        ( /\ a # b
          /\ IsDone(a, "refresh") /\ IsDone(b, "refresh")
          /\ reqs[a].cookie # NoToken
          /\ reqs[a].cookie = reqs[b].cookie )
        => ~(reqs[a].status = 200 /\ reqs[b].status = 200)

\* C2: once a refresh that presented R1 has been answered 200 with cookie R2,
\*  (i)   every refresh that presents R1 from then on is refused: 401
\*        "invalid or expired" when the lookup runs, and never a rotation;
\*  (ii)  the step that answered 200 replaced R1 by R2 in place, on the same
\*        record, with expiry now + 7 days, adding no record;
\*  (iii) while R2 is the token of that session and its expiry is ahead, a
\*        refresh that presents R2 finds the record, and its save is answered
\*        200 with yet another token.
\* Logins, refreshes and logouts of other sessions may happen in between.
C2_SequentialRotation ==
    [][ \A a, r \in ReqIds :
          /\ ( Rotated(a) /\ (\E ok \in BOOLEAN : RefreshFind(r, reqs[a].cookie, ok)) )
             => /\ reqs'[r].pc = "done"
                /\ reqs'[r].status \in {401, 500}
                /\ RefreshFind(r, reqs[a].cookie, TRUE)
                   => reqs'[r].status = 401 /\ reqs'[r].error = "invalid or expired"
          /\ ( RefreshSave(a, TRUE) /\ HasDoc(reqs[a].docId) )
             => /\ reqs'[a].status = 200
                /\ reqs'[a].setCookie # reqs[a].cookie
                /\ Cardinality(ledger') = Cardinality(ledger)
                /\ \A d \in ledger' : d.token # reqs[a].cookie
                /\ \E d \in ledger' :
                      /\ d.id = reqs[a].docId
                      /\ d.token = reqs'[a].setCookie
                      /\ d.expiresAt = now + REFRESH_TOKEN_EXPIRES_IN
                /\ \A d \in ledger' : d.token = reqs'[a].setCookie
                                         => d.id = reqs[a].docId
          /\ ( /\ Rotated(a)
               /\ \E d \in ledger : d.token = reqs[a].setCookie /\ now < d.expiresAt
               /\ RefreshFind(r, reqs[a].setCookie, TRUE) )
             => reqs'[r].pc = "save"
      ]_vars

\* C2 witness: a refresh was answered 200, and a refresh that presented the
\* same (now rotated) token has been answered 401.
C2_Witness ==
    \E a, r \in ReqIds :
        /\ Rotated(a)
        /\ IsDone(r, "refresh")
        /\ reqs[r].cookie = reqs[a].cookie
        /\ reqs[r].status = 401
        /\ reqs[r].error = "invalid or expired"

\* C9: a logout whose delete operation completes is answered 200 whether the
\* token is present, absent from the request, unknown or already revoked; it
\* removes exactly the records with that token; and a logout that repeats an
\* answered logout's token leaves the ledger as the first one left it.
C9_LogoutIdempotent ==
    [][ \A r \in ReqIds, c \in Cookies :
          Logout(r, c, TRUE)
          => /\ reqs'[r].status = 200
             /\ \A d \in ledger' : d.token # c
             /\ \A d \in ledger : d.token # c => d \in ledger'
             /\ ledger' \subseteq ledger
             /\ ( \/ c = NoToken
                  \/ \E l \in ReqIds : /\ IsDone(l, "logout")
                                       /\ reqs[l].status = 200
                                       /\ reqs[l].cookie = c )
                => ledger' = ledger
      ]_vars

\* C9 witness: two logouts with the same token, issued by a login, have both
\* been answered 200, while another session is still in the ledger.
C9_Witness ==
    \E l, r \in ReqIds :
        /\ l # r
        /\ IsDone(l, "logout") /\ IsDone(r, "logout")
        /\ reqs[l].cookie = reqs[r].cookie
        /\ reqs[l].cookie # NoToken
        /\ reqs[l].status = 200 /\ reqs[r].status = 200
        /\ ledger # {}

\* C10 (as claimed): every logout is answered 200 and clears the cookie,
\* also when the ledger's delete operation fails.
C10_LogoutAlwaysSucceeds ==
    \A r \in ReqIds :
        IsDone(r, "logout") => reqs[r].status = 200 /\ reqs[r].cleared

(***************************************************************************)
(* Properties of the client                                                *)
(***************************************************************************)
\* C3: at most one /auth/refresh call is unanswered at any time; a 401 on a
\* protected request that has not been through renewal makes exactly one
\* /auth/refresh call when none is under way, and none (the request waits in
\* the queue) when one is; and when the call succeeds, the request that made
\* it and every queued request are sent again with the renewed token, the
\* queue is empty and the flag is down.
C3_SingleFlight ==
    /\ [](Cardinality(RefreshInFlight) <= 1)
    /\ [][ \A r \in CReqIds :
             /\ ( Respond401(r) /\ creqs[r].kind = "protected" /\ ~creqs[r].retry )
                => IF isRefreshing
                     THEN /\ RefreshCalls' = RefreshCalls
                          /\ r \in Queued'
                          /\ creqs'[r].st = "queued"
                     ELSE /\ Cardinality(RefreshCalls' \ RefreshCalls) = 1
                          /\ Cardinality(RefreshInFlight') = 1
                          /\ isRefreshing'
                          /\ creqs'[r].st = "awaiting"
             /\ ( RespondOk(r) /\ creqs[r].kind = "refresh" )
                => /\ \A q \in Queued \cup {creqs[r].parent} :
                         /\ creqs'[q].st = "sent"
                         /\ creqs'[q].auth = lsAccessToken'
                         /\ creqs'[q].auth # creqs[q].auth
                   /\ lsAccessToken' # lsAccessToken
                   /\ failedQueue' = << >>
                   /\ ~isRefreshing'
                   /\ RefreshCalls' = RefreshCalls
         ]_vars

\* C3 witness: two protected requests got 401 for the same token, one made
\* the only /auth/refresh call and the other waited; the call succeeded and
\* both are sent again with the renewed token.
C3_Witness ==
    \E x, y, c \in CReqIds :
        /\ x # y
        /\ creqs[x].kind = "protected" /\ creqs[y].kind = "protected"
        /\ creqs[x].retry /\ ~creqs[y].retry
        /\ creqs[x].replayed /\ creqs[y].replayed
        /\ creqs[x].st = "sent" /\ creqs[y].st = "sent"
        /\ creqs[x].auth = lsAccessToken /\ creqs[y].auth = lsAccessToken
        /\ RefreshCalls = {c}
        /\ creqs[c].st = "resolved" /\ creqs[c].parent = x
        /\ ~isRefreshing

\* C4 (as claimed): when the /auth/refresh call fails -- a 401, another error
\* status or no response -- the task that handles the failure rejects every
\* queued request, removes accessToken and lastLogin, schedules the redirect
\* and lowers the is-refreshing flag.
C4_TerminalFailure ==
    [][ \A c \in CReqIds :
          ( /\ creqs[c].kind = "refresh"
            /\ Respond401(c) \/ RespondError(c) \/ NetworkError(c) )
          => /\ ~isRefreshing'
             /\ failedQueue' = << >>
             /\ \A q \in Queued \cup {c, creqs[c].parent} :
                    creqs'[q].st = "rejected"
             /\ lsAccessToken' = NoToken
             /\ ~lsLastLogin'
             /\ redirectPending'
      ]_vars

\* C5 (as claimed): a 401 for /auth/login, /auth/register or /auth/refresh is
\* rejected to its caller; it is not queued and starts no refresh.
C5_AuthCallsBypassRenewal ==
    [][ \A r \in CReqIds :
          ( creqs[r].kind \in {"login", "register", "refresh"} /\ Respond401(r) )
          => /\ creqs'[r].st = "rejected"
             /\ r \notin Queued'
             /\ RefreshCalls' = RefreshCalls
      ]_vars

\* C6 (as claimed): a request that was sent again after a renewal and gets
\* 401 once more is rejected to its caller: it neither waits in the queue
\* nor makes a /auth/refresh call, whether it made the first call or waited
\* behind it.
C6_ReplayGuard ==
    [][ \A r \in CReqIds :
          ( creqs[r].replayed /\ Respond401(r) )
          => /\ creqs'[r].st = "rejected"
             /\ r \notin Queued'
             /\ RefreshCalls' = RefreshCalls
      ]_vars

\* C7 (as claimed): a failure without a response makes no /auth/refresh
\* call, does not raise the is-refreshing flag, queues nothing and leaves
\* the cached access token as it was.
C7_NetworkFailureAsClaimed ==
    [][ \A r \in CReqIds :
          NetworkError(r)
          => /\ RefreshCalls' = RefreshCalls
             /\ isRefreshing' => isRefreshing
             /\ Queued' \subseteq Queued
             /\ creqs'[r].st = "rejected"
             /\ lsAccessToken' = lsAccessToken
      ]_vars

\* C7 (amended): a failure without a response makes no /auth/refresh call,
\* does not raise the is-refreshing flag, queues nothing, and rejects the
\* request; the cached access token is left as it was unless the request is
\* the /auth/refresh call of a renewal under way, whose failure is the
\* terminal failure of that renewal and removes the token.  A new
\* /auth/refresh call is made only on a 401 for a protected request.
C7_NetworkFailure ==
    [][ /\ \A r \in CReqIds :
             NetworkError(r)
             => /\ RefreshCalls' = RefreshCalls
                /\ isRefreshing' => isRefreshing
                /\ Queued' \subseteq Queued
                /\ creqs'[r].st = "rejected"
                /\ creqs[r].kind # "refresh" => lsAccessToken' = lsAccessToken
                /\ creqs[r].kind = "refresh"
                      => lsAccessToken' = NoToken /\ ~isRefreshing'
        /\ RefreshCalls' # RefreshCalls
             => \E r \in CReqIds :
                   /\ creqs[r].kind = "protected"
                   /\ creqs'[r].resp = "401"
                   /\ Respond401(r)
      ]_vars

\* C7 witness: a protected request failed without a response while a token
\* is cached and a renewal is under way; the renewal's call is still
\* unanswered and the token is still cached.
C7_Witness ==
    \E r, c \in CReqIds :
        /\ creqs[r].kind = "protected"
        /\ creqs[r].resp = "net" /\ creqs[r].st = "rejected"
        /\ creqs[c].kind = "refresh" /\ creqs[c].st = "sent"
        /\ isRefreshing
        /\ lsAccessToken # NoToken

(***************************************************************************)
(* Properties of the authenticate middleware                               *)
(***************************************************************************)
\* the request carries no usable credential at clock t: no Bearer header, a
\* token that is malformed or wrongly signed, one that is past its expiry,
\* or a well-signed one of another type
ExpiredCase(h, tok, t) ==
    /\ h = "bearer" /\ tok.wellFormed /\ tok.sig = "good"
    /\ tok.type = "access"
    /\ ClockSeconds(t) >= tok.exp

WrongTypeCase(h, tok, t) ==
    /\ h = "bearer" /\ tok.wellFormed /\ tok.sig = "good"
    /\ tok.type # "access"

AccessTokenFailure(h, tok, t) ==
    \/ h # "bearer"
    \/ ~tok.wellFormed
    \/ tok.sig # "good"
    \/ ExpiredCase(h, tok, t)
    \/ WrongTypeCase(h, tok, t)

\* C8 (as claimed): authenticate answers 401 to every access-token failure;
\* the answer carries code TOKEN_EXPIRED exactly in the expired case (a
\* well-signed, expired token of the wrong type may carry either), and
\* next() is not called.
C8_AuthFailuresAre401 ==
    [][ \A h \in AuthHeaders, tok \in PresentedTokens :
          ( AuthVerify(h, tok) /\ AccessTokenFailure(h, tok, now) )
          => /\ areq'.pc = "done"
             /\ areq'.status = 401
             /\ ~areq'.nextCalled
             /\ ExpiredCase(h, tok, now) => areq'.code = "TOKEN_EXPIRED"
             /\ ~(tok.wellFormed /\ tok.sig = "good"
                  /\ ClockSeconds(now) >= tok.exp)
                   => areq'.code # "TOKEN_EXPIRED"
      ]_vars

(***************************************************************************)
(* Properties of login                                                     *)
(***************************************************************************)
\* a well-formed login that must be refused: nobody has the email, or the
\* password is not the one of the account
UnknownEmail(e, p) == loginValidationOk(e, p) /\ \A u \in users : u.email # e

WrongPassword(e, p) ==
    /\ loginValidationOk(e, p)
    /\ \E u \in users : u.email = e /\ u.password # p

\* C11: a well-formed login with an unknown email and one with a known email
\* and a wrong password get the same response, status 401 with the same
\* error body (a step that answers the one is a step that answers the
\* other), and neither sets a cookie, creates a ledger record or changes a
\* user record.
C11_NoEnumeration ==
    [][ \A r \in ReqIds :
          (reqs[r].pc = "idle" /\ reqs'[r].op = "login") =>
            \A e1, e2 \in LoginEmails, p1, p2 \in LoginPasswords :
              ( /\ UnknownEmail(e1, p1) /\ WrongPassword(e2, p2)
                /\ LoginFind(r, e1, p1, TRUE) \/ LoginFind(r, e2, p2, TRUE) )
              => /\ LoginFind(r, e1, p1, TRUE) /\ LoginFind(r, e2, p2, TRUE)
                 /\ reqs'[r].pc = "done" /\ reqs'[r].status = 401
                 /\ reqs'[r].setCookie = NoToken
                 /\ ledger' = ledger /\ users' = users
      ]_vars

\* a refused login has been answered while the ledger holds a session
C11_Witness ==
    \E r \in ReqIds :
       /\ reqs[r].op = "login" /\ reqs[r].pc = "done"
       /\ reqs[r].status = 401 /\ reqs[r].error = "bad credentials"
       /\ ledger # {}

(***************************************************************************)
(* Properties of register                                                  *)
(***************************************************************************)
EmailUnique == \A u, v \in users : u.email = v.email => u = v

ProtectedEndpoints ==
    {"GET /api/auth/me", "POST /api/transcribe", "POST /api/analyze",
     "GET /api/recordings", "POST /api/recordings", "GET /api/recordings/:id",
     "PUT /api/recordings/:id", "DELETE /api/recordings/:id"}

\* C13: on every protected endpoint the handler runs only for a request
\* whose Bearer token authenticate has verified (well signed, of type access,
\* unexpired when verified) and whose user it has found; req.user is then
\* the user the token names.
C13_HandlerBehindAuthenticate ==
    /\ [] ( ( /\ areq.route \in ProtectedEndpoints
              /\ areq.pc = "handler" \/ areq.handlerRan )
            => /\ areq.nextCalled
               /\ areq.header = "bearer"
               /\ areq.tok.wellFormed /\ areq.tok.sig = "good"
               /\ areq.tok.type = "access"
               /\ areq.user = areq.tok.userId
               /\ \E u \in users : u.id = areq.user )
    /\ [][ ( /\ areq'.route \in ProtectedEndpoints
             /\ areq.pc # "handler" /\ areq'.pc = "handler" )
           => /\ areq.pc = "findUser"
              /\ areq'.tok = areq.tok
              /\ areq.userId = areq.tok.userId ]_vars
    /\ [][ (areq.pc # "findUser" /\ areq'.pc = "findUser")
           => /\ areq.pc = "auth"
              /\ ClockSeconds(now) < areq'.tok.exp ]_vars

\* the handler of a recordings route has run for the user of the token
C13_Witness ==
    /\ areq.route = "DELETE /api/recordings/:id"
    /\ areq.handlerRan /\ areq.user = "u1" /\ areq.status = 200

(***************************************************************************)
(* Properties of access-token validity                                     *)
(***************************************************************************)
\* the token passes verifyAccessToken at clock t
TokenValid(tok, t) ==
    /\ tok.wellFormed /\ tok.sig = "good" /\ tok.type = "access"
    /\ ClockSeconds(t) < tok.exp

\* C14 (as claimed): whether authenticate accepts a token depends only on
\* its signature, type and expiry against the clock: once the token has
\* passed verification and the store answers, the request is accepted.
C14_StatelessAsClaimed ==
    [][ AuthFindUser(TRUE) => areq'.nextCalled ]_vars

\* C14 (amended): the verdict on the token itself depends only on its
\* signature, type and expiry against the clock; authenticate then accepts
\* exactly when the user the token names is in the user store, whatever the
\* ledger holds; and no step of login or logout changes whether that user
\* is there.
C14_Stateless ==
    /\ [][ (areq.pc = "auth" /\ areq'.pc # "auth") =>
             \A h \in AuthHeaders, tok \in PresentedTokens :
               AuthVerify(h, tok)
               => ( areq'.pc = "findUser"
                      <=> (h = "bearer" /\ TokenValid(tok, now)) )
         ]_vars
    /\ [][ AuthFindUser(TRUE)
           => ( areq'.nextCalled <=> \E u \in users : u.id = areq.tok.userId )
         ]_vars
    /\ [][ \A id \in {"u1", "u9"} :
             (\E u \in users' : u.id = id) <=> (\E u \in users : u.id = id)
         ]_vars

\* a token issued by a login is accepted although the logout of that session
\* has emptied the ledger
C14_Witness ==
    /\ areq.pc = "handler" /\ areq.nextCalled
    /\ ledger = {}
    /\ \E r, q \in ReqIds :
          /\ reqs[r].op = "logout" /\ reqs[r].pc = "done" /\ reqs[r].status = 200
          /\ reqs[q].op = "login" /\ reqs[q].pc = "done" /\ reqs[q].status = 200
          /\ reqs[r].cookie = reqs[q].setCookie
          /\ reqs[q].accessToken = areq.tok

\* C15: GET /auth/me with a valid, unexpired access token whose user is not
\* in the store is refused with the user-not-found answer; the answer for a
\* missing, invalid or expired token is never that one; the handler does not
\* run and the response carries no user.
C15_UserNotFound ==
    /\ [][ ( /\ areq.route = "GET /api/auth/me"
             /\ areq.pc = "findUser"
             /\ \A u \in users : u.id # areq.tok.userId
             /\ AuthFindUser(TRUE) )
           => /\ areq'.pc = "done" /\ areq'.status = 401
              /\ areq'.error = "user not found"
              /\ ~areq'.nextCalled /\ ~areq'.handlerRan
              /\ areq'.user = "" /\ areq'.bodyUser = "" ]_vars
    /\ [][ (areq.pc = "auth" /\ areq'.pc = "done") =>
             \A h \in AuthHeaders, tok \in PresentedTokens :
               ( AuthVerify(h, tok) /\ AccessTokenFailure(h, tok, now) )
               => areq'.error # "user not found" ]_vars
    /\ [] ( areq.error = "user not found"
            => areq.pc = "done" /\ ~areq.handlerRan /\ areq.bodyUser = "" )

\* GET /auth/me was refused because the token's user is gone
C15_Witness ==
    /\ areq.route = "GET /api/auth/me" /\ areq.pc = "done"
    /\ areq.error = "user not found" /\ areq.tok.userId = "u9"
    /\ TokenValid(areq.tok, now)

\* the instants (milliseconds) at which the presented tokens were signed: on
\* a whole second and in the middle of one
IssueInstants == { i * 1000 + f : i \in IssueSeconds, f \in {0, 500} }

\* C16 (as claimed): a token issued at instant t is accepted by
\* verifyAccessToken at every clock value before t + 15 min and rejected as
\* expired at t + 15 min and later.
C16_ExpiryBoundaryAsClaimed ==
    [][ (areq.pc = "auth" /\ areq'.pc # "auth") =>
          \A t \in IssueInstants :
            ( t <= now /\ AuthVerify("bearer", SignedAt("u1", t)) )
            => /\ now < t + JWT_EXPIRES_IN * 1000 => areq'.pc = "findUser"
               /\ now >= t + JWT_EXPIRES_IN * 1000
                    => areq'.code = "TOKEN_EXPIRED"
      ]_vars

\* C16 (amended): the token carries exp = floor(t / 1000) + 900 seconds; it
\* is accepted at every clock value before the instant exp * 1000 and
\* rejected as expired at that instant and later; for t on a whole second
\* that instant is t + 15 min.
C16_ExpiryBoundary ==
    [][ (areq.pc = "auth" /\ areq'.pc # "auth") =>
          \A t \in IssueInstants :
            ( t <= now /\ AuthVerify("bearer", SignedAt("u1", t)) )
            => LET expiry == (ClockSeconds(t) + JWT_EXPIRES_IN) * 1000
               IN  /\ now < expiry => areq'.pc = "findUser"
                   /\ now >= expiry
                        => /\ areq'.pc = "done" /\ areq'.status = 401
                           /\ areq'.code = "TOKEN_EXPIRED"
                   /\ t = ClockSeconds(t) * 1000
                        => expiry = t + JWT_EXPIRES_IN * 1000
      ]_vars

\* a token was refused as expired at the very instant of its expiry
C16_Witness ==
    /\ areq.pc = "done" /\ areq.code = "TOKEN_EXPIRED"
    /\ areq.tok.sig = "good" /\ areq.tok.type = "access"
    /\ now = areq.tok.exp * 1000

(***************************************************************************)
(* Properties of the refresh lookup                                        *)
(***************************************************************************)
\* what the caller of a request sees
ResponseOf(rec) ==
    <<rec.status, rec.error, rec.setCookie, rec.cleared, rec.accessToken, rec.user>>

\* C17: a refresh goes on to rotation only for a record whose expiresAt is
\* strictly later than the clock; for a cookie whose record has expiresAt
\* equal to or before the clock the answer is the very 401 given for a cookie
\* with no record, and the ledger is left as it was.
C17_StrictExpiry ==
    [][ \A r \in ReqIds :
          (reqs[r].pc = "idle" /\ reqs'[r].op = "refresh") =>
            \A c \in Cookies \ {NoToken} :
              RefreshFind(r, c, TRUE)
              => /\ reqs'[r].pc = "save"
                   => \E d \in ledger : d.token = c /\ d.expiresAt > now
                 /\ (\A d \in ledger : d.token = c => d.expiresAt <= now)
                   => /\ reqs'[r].pc = "done"
                      /\ ResponseOf(reqs'[r]) =
                           <<401, "invalid or expired", NoToken, FALSE,
                             NoAccessToken, "">>
                      /\ ledger' = ledger
      ]_vars

\* a refresh was refused for a cookie whose record is still in the ledger
\* and expires at this very instant
C17_Witness ==
    \E r \in ReqIds :
       /\ reqs[r].op = "refresh" /\ reqs[r].pc = "done" /\ reqs[r].status = 401
       /\ \E d \in ledger : d.token = reqs[r].cookie /\ d.expiresAt = now

(***************************************************************************)
(* Properties of token issuance                                            *)
(***************************************************************************)
\* verifying tok at instant t succeeds and the decoded payload names uid
VerifiesAs(tok, t, uid) ==
    verifyAccessToken(tok, t) = "ok" /\ tok.userId = uid

\* C18: the access token in a 201 register response, verified when the
\* response is sent, names the user record this request inserted; the access
\* token in a 200 login response names the user found by the login's email;
\* the access token in a 200 refresh response names the user owning the
\* refresh-token record.
C18_TokenNamesUser ==
    [][ \A r \in IssueReqs :
          /\ (reqs[r].op = "register" /\ reqs[r].pc = "saveUser"
                /\ reqs'[r].pc = "create")
             => \E u \in users' \ users :
                   /\ users' = users \cup {u}
                   /\ u.id = reqs'[r].userId
                   /\ u.email = reqs[r].email
          /\ (reqs[r].op = "register" /\ reqs[r].pc = "create"
                /\ reqs'[r].status = 201)
             => /\ VerifiesAs(reqs'[r].accessToken, now', reqs[r].userId)
                /\ \E u \in users : u.id = reqs[r].userId
          /\ (reqs[r].pc = "idle" /\ reqs'[r].op = "login"
                /\ reqs'[r].pc = "saveUser")
             => \A e \in LoginEmails :
                   LoginFind(r, e, "Abcd1234", TRUE)
                   => \E u \in users : u.email = e /\ u.id = reqs'[r].userId
          /\ (reqs[r].op = "login" /\ reqs[r].pc = "create"
                /\ reqs'[r].status = 200)
             => VerifiesAs(reqs'[r].accessToken, now', reqs[r].userId)
          /\ (reqs[r].op = "refresh" /\ reqs[r].pc = "save"
                /\ reqs'[r].status = 200)
             => \E d \in ledger :
                   /\ d.id = reqs[r].docId
                   /\ VerifiesAs(reqs'[r].accessToken, now', d.userId)
      ]_vars

\* a refresh has answered with a token, issued between two whole seconds, for
\* a user who registered and never logged in: the refreshed record is the one
\* the registration created
C18_Witness ==
    /\ \E r \in IssueReqs :
          /\ reqs[r].op = "refresh" /\ reqs[r].pc = "done" /\ reqs[r].status = 200
          /\ reqs[r].accessToken.userId = "u2"
          /\ reqs[r].accessToken.iat = 1
    /\ now = 1500
    /\ \E u \in users : u.id = "u2" /\ u.lastLoginAt = NeverLoggedIn

(***************************************************************************)
(* Properties of the client's start-up check                               *)
(***************************************************************************)
\* the step is a run of the AuthProvider's start-up effect
StartStep == page.pc = "closed" /\ page'.pc = "open"

\* milliseconds since the instant stored under lastLogin
SinceLastLogin == now - getTime(lsLastLoginIso)

SevenDays == 7 * 24 * 60 * 60 * 1000

\* the server would rotate the browser's cookie if asked now
ServerWouldRefresh == jar # NoToken /\ LedgerFindOne(jar, now) # {}

\* the step rotates the ledger record of the browser's cookie
RotationStep ==
    /\ jar # NoToken /\ jar' # jar
    /\ \E d \in ledger : d.token = jar
         /\ \E e \in ledger' : e.id = d.id /\ e.token = jar'

\* C19: a client start more than 7 days after the stored lastLogin removes
\* the cached access token and sends no start-up request, whatever the
\* ledger holds; a start at 7 days or less (the stored version being the
\* current one) keeps the token and sends the request when there is a token;
\* a refresh leaves lastLogin as it was, and lastLogin is only ever set by a
\* login to the instant of that login.
C19_SessionCeiling ==
    [][ /\ StartStep =>
             /\ (lsLastLoginIso # NoStamp /\ SinceLastLogin > SevenDays)
                  => /\ lsAccessToken' = NoToken
                     /\ page'.fetch = "none"
                     /\ ~page'.isAuthValid
                     /\ ledger' = ledger /\ jar' = jar
             /\ (lsLastLoginIso # NoStamp /\ SinceLastLogin <= SevenDays
                   /\ lsApiVersion = API_VERSION)
                  => /\ lsAccessToken' = lsAccessToken
                     /\ page'.isAuthValid
                     /\ lsAccessToken # NoToken => page'.fetch = "sent"
        /\ RotationStep => /\ lsLastLoginIso' = lsLastLoginIso
                           /\ lsAccessToken' # NoToken
        /\ (lsLastLoginIso' # lsLastLoginIso /\ lsLastLoginIso' # NoStamp)
             => /\ getTime(lsLastLoginIso') = now
                /\ ~RotationStep
      ]_vars

\* a page started more than 7 days after a login, the token is gone and no
\* start-up request went out, while a refresh made in between has left the
\* cookie's record unexpired in the ledger
C19_Witness ==
    /\ page.pc = "open" /\ page.fetch = "none"
    /\ lsAccessToken = NoToken
    /\ lsLastLoginIso # NoStamp
    /\ SinceLastLogin > SevenDays
    /\ ServerWouldRefresh

\* C20: a start with a stored apiVersion other than API_VERSION (none
\* included) removes the access token and lastLogin, reports the session
\* invalid and sends no start-up request; every start leaves apiVersion equal
\* to API_VERSION, and it stays so while the page is open; an access token
\* that is there after a start was there before it, under the current version.
C20_VersionMarker ==
    /\ [](page.pc = "open" => lsApiVersion = API_VERSION)
    /\ [][ StartStep =>
             /\ lsApiVersion' = API_VERSION
             /\ lsApiVersion # API_VERSION
                  => /\ lsAccessToken' = NoToken
                     /\ lsLastLoginIso' = NoStamp
                     /\ ~lsLastLogin'
                     /\ ~page'.isAuthValid
                     /\ page'.fetch = "none"
             /\ lsAccessToken' # NoToken
                  => /\ lsApiVersion = API_VERSION
                     /\ lsAccessToken' = lsAccessToken
         ]_vars

\* a page has started on the storage of an older build: the token that was
\* cached (the first one, no login having been made since) and its lastLogin
\* are gone, no start-up request went out, and the version is the current one
C20_Witness ==
    /\ page.pc = "open" /\ page.fetch = "none" /\ ~page.isAuthValid
    /\ atCtr = 1 /\ tokenCtr = 0
    /\ lsAccessToken = NoToken
    /\ lsLastLoginIso = NoStamp
    /\ lsApiVersion = API_VERSION

(***************************************************************************)
(* Properties of the renewal queue                                         *)
(***************************************************************************)
\* C21: a request waiting in failedQueue leaves it only in the task in which
\* the unanswered /auth/refresh call settles; it is sent again only when that
\* call succeeded, after the new token was stored, with the new token in its
\* header and not the one it was sent with before; otherwise it is rejected.
C21_QueuedResumeAfterSettle ==
    [][ \A q \in CReqIds :
          (creqs[q].st = "queued" /\ creqs'[q].st # "queued")
          => \E c \in RefreshInFlight :
                /\ isRefreshing /\ ~isRefreshing'
                /\ creqs'[c].st \in {"resolved", "rejected"}
                /\ IF creqs'[c].st = "resolved"
                     THEN /\ creqs'[q].st = "sent" /\ creqs'[q].replayed
                          /\ lsAccessToken' # NoToken
                          /\ lsAccessToken' # lsAccessToken
                          /\ creqs'[q].auth = lsAccessToken'
                          /\ creqs'[q].auth # creqs[q].auth
                     ELSE /\ creqs'[q].st = "rejected"
                          /\ creqs'[q].replayed = creqs[q].replayed
                          /\ creqs'[q].auth = creqs[q].auth
      ]_vars

\* a request that waited in the queue is on its way again with the renewed
\* token, the refresh call that another request started having succeeded
C21_Witness ==
    \E q, c \in CReqIds :
        /\ creqs[q].kind = "protected" /\ ~creqs[q].retry
        /\ creqs[q].replayed /\ creqs[q].st = "sent"
        /\ creqs[q].resp = "none"
        /\ creqs[q].auth = lsAccessToken /\ lsAccessToken # NoToken
        /\ creqs[c].kind = "refresh" /\ creqs[c].st = "resolved"
        /\ creqs[c].parent # q
        /\ failedQueue = << >>

(***************************************************************************)
(* Properties of the in-memory refresh-token store                         *)
(***************************************************************************)
\* C22 (as claimed): after any sequence of create, rotation and deleteOne the
\* in-memory store answers every findOne as the persistent store does, and
\* holds as many entries as the persistent store holds records.
C22_MemoryStoreEquivalent ==
    /\ \A tok \in Cookies \ {NoToken} : MemAnswer(tok, now) = LedgerAnswer(tok, now)
    /\ Cardinality(DOMAIN refreshTokens) = Cardinality(ledger)

(***************************************************************************)
(* Properties of logout as revocation                                      *)
(***************************************************************************)
\* a logout that carried the token tok has been answered
LoggedOut(l, tok) == IsDone(l, "logout") /\ reqs[l].cookie = tok

\* the step starts a refresh request r that presents tok
RefreshStarts(r, tok) ==
    /\ reqs[r].pc = "idle"
    /\ reqs'[r].op = "refresh"
    /\ reqs'[r].cookie = tok

C24_RenewalAsksServer ==
    [][ \A r \in CReqIds :
          ( /\ AltRespond401(r)
            /\ creqs[r].kind = "protected" /\ ~creqs[r].retry
            /\ ~isRefreshing
            /\ lsLastLogin )
          => /\ Cardinality(RefreshCalls' \ RefreshCalls) = 1
             /\ lsAccessToken' = lsAccessToken
      ]_vars

(***************************************************************************)
(* Properties of the interceptor's closure state                           *)
(***************************************************************************)
\* C25 (as claimed): failedQueue is non-empty only while isRefreshing is
\* set, and in the task in which the /auth/refresh call is answered --
\* success, error status or no response -- the flag is lowered and the queue
\* emptied, so that the next 401 starts a new call.
C25_RefreshStateInvariant ==
    /\ [](failedQueue # << >> => isRefreshing)
    /\ [][ \A c \in CReqIds :
             (creqs[c].kind = "refresh" /\ creqs[c].st = "sent"
                /\ creqs'[c].st # "sent")
             => ~isRefreshing' /\ failedQueue' = << >>
         ]_vars

(***************************************************************************)
(* Properties of failed requests                                           *)
(***************************************************************************)
\* the step answers request r of the handler op with the status st
Answers(r, op, st) ==
    /\ reqs[r].pc # "done"
    /\ reqs'[r].pc = "done"
    /\ reqs'[r].op = op
    /\ reqs'[r].status = st

\* C26 (as claimed): when register answers 400 or 500, no user record and no
\* ledger record made by that request is in the stores.
C26_RegisterAllOrNothing ==
    [][ \A r \in ReqIds, st \in {400, 500} :
          Answers(r, "register", st)
          => /\ \A u \in users' : u.id # reqs[r].userId
             /\ \A d \in ledger' : d.userId # reqs[r].userId
      ]_vars

\* the step rejects request r: a login with 400 or 401, a refresh with 401
Rejects(r) ==
    \/ Answers(r, "login", 400)
    \/ Answers(r, "login", 401)
    \/ Answers(r, "refresh", 401)

\* C27: a login answered 400 or 401 and a refresh answered 401 leave the
\* ledger and the users (lastLoginAt included) as they were and set no
\* cookie; a login answered 200 adds one ledger record, of that user and
\* holding the cookie it set, and leaves every other record as it was.
C27_FailedOpsChangeNothing ==
    [][ \A r \in ReqIds :
          /\ Rejects(r)
               => /\ ledger' = ledger
                  /\ users' = users
                  /\ reqs'[r].setCookie = NoToken
          /\ Answers(r, "login", 200)
               => /\ ledger \subseteq ledger'
                  /\ Cardinality(ledger' \ ledger) = 1
                  /\ \A d \in ledger' \ ledger :
                        /\ d.userId = reqs[r].userId
                        /\ d.token = reqs'[r].setCookie
      ]_vars

\* a login has been answered 200 while an earlier record of the same user is
\* still in the ledger and unexpired, and another request has been rejected
\* with 401
C27_Witness ==
    /\ \E r \in ReqIds : IsDone(r, "login") /\ reqs[r].status = 200
         /\ \E d, e \in ledger :
              /\ d.token = reqs[r].setCookie /\ e.token # d.token
              /\ e.userId = d.userId /\ e.expiresAt > now
    /\ \E q \in ReqIds : reqs[q].pc = "done" /\ reqs[q].status = 401
         /\ reqs[q].op \in {"login", "refresh"}

(***************************************************************************)
(* Properties of the recording handlers                                    *)
(***************************************************************************)
\* the step is a getRecording, updateRecording or deleteRecording by u for
\* the id, the store working (ok) or failing
ById(u, id, ok) ==
    \/ GetRecording(u, id, ok)
    \/ \E tr \in RecTexts, an \in RecTexts : UpdateRecording(u, id, tr, an, ok)
    \/ \E fo \in BOOLEAN : DeleteRecording(u, id, ok, fo)

\* C28: getRecording, updateRecording and deleteRecording by a user for a
\* recording of another user answer 404 (500 when the store fails) with no
\* recording in the body and leave the collection and the files as they were;
\* getUserRecordings returns recordings of its user only, and counts those;
\* saveRecording adds one recording, owned by its user whatever the body says.
C28_OwnershipIsolation ==
    [][ /\ \A d \in recordings, u \in RecUsers, ok \in BOOLEAN :
             ( /\ u # d.userId
               /\ recResp'.user = u /\ recResp'.id = d.id
               /\ ById(u, d.id, ok) )
             => /\ recResp'.status = IF ok THEN 404 ELSE 500
                /\ recResp'.body = << >>
                /\ recordings' = recordings
                /\ recFiles' = recFiles
        /\ \A u \in RecUsers, pg \in RecPages, lim \in RecLimits :
             ( /\ recResp'.op = "list" /\ recResp'.user = u
               /\ ListRecordings(u, pg, lim, TRUE) )
             => /\ \A i \in 1 .. Len(recResp'.body) :
                      /\ recResp'.body[i].userId = u
                      /\ \E d \in recordings : RecView(d) = recResp'.body[i]
                /\ recResp'.total = Cardinality(RecFind(u))
        /\ recCtr' # recCtr
             => /\ recordings \subseteq recordings'
                /\ \A d \in recordings' \ recordings : d.userId = recResp'.user
                /\ recResp'.status = 201
                     => Cardinality(recordings' \ recordings) = 1
      ]_vars

\* a user who has a recording has just been answered 404 for a recording
\* that another user owns, which is still in the collection with its file
C28_Witness ==
    /\ recResp.status = 404
    /\ recResp.op \in {"get", "update", "delete"}
    /\ \E d \in recordings : d.id = recResp.id /\ d.userId # recResp.user
         /\ d.transcription = "t" /\ d.filePath \in recFiles
    /\ \E e \in recordings : e.userId = recResp.user

(***************************************************************************)
(* Properties of the recorder hook                                         *)
(***************************************************************************)
\* C30 (as claimed): in every state reached through startRecording,
\* pauseRecording, resumeRecording, stopRecording, resetRecording and the
\* recorder's callbacks, isPaused implies isRecording.
C30_PausedImpliesRecording == isPaused => isRecording

(***************************************************************************)
(* Properties of the endpoint failover                                     *)
(***************************************************************************)
\* the calls that are waiting for checkAllEndpoints
Checking == { c \in CallIds : calls[c].pc = "checking" }

\* the step settles call c
Settles(c) == calls[c].pc # "done" /\ calls'[c].pc = "done"

\* the step leaves the manager's endpoints as they were
EndpointsKept ==
    /\ currentEndpoint' = currentEndpoint
    /\ availableEndpoints' = availableEndpoints
    /\ preferredApiEndpoint' = preferredApiEndpoint

\* a call made while a failover is in progress, or for an error with a
\* response whose status is below 500, returns false, starts no check and
\* leaves the endpoints as they were
TurnedAway ==
    \A c \in CallIds, error \in ApiErrors :
       ( /\ calls[c].pc = "idle" /\ calls'[c].pc # "idle"
         /\ HandleStart(c, error)
         /\ failoverInProgress \/ (HasResponse(error) /\ Status(error) < 500) )
       => /\ calls'[c].pc = "done" /\ ~calls'[c].result
          /\ Checking' = Checking
          /\ failoverInProgress' = failoverInProgress
          /\ EndpointsKept

\* the endpoint after a step that settles a call is the one before it, or an
\* endpoint that passed the call's health check and is not the one before it
SwitchedToHealthy ==
    \A c \in CallIds :
       Settles(c)
       => \/ currentEndpoint' = currentEndpoint
          \/ /\ currentEndpoint' # currentEndpoint
             /\ calls'[c].result
             /\ \E H \in SUBSET API_ENDPOINTS :
                   HandleSettle(c, H) /\ currentEndpoint' \in H

=============================================================================
